---- MODULE Spec2Model ----
(***************************************************************************)
(* Model of the pipeline coordinator of ClinicalMatchMaker                 *)
(* (lib/orchestrator.ts: withRetry, runPipeline) and of the retry wrapper  *)
(* of the Toolhouse client (withRetry of the Toolhouse agent runner).                  *)
(*                                                                         *)
(* Specifications:                                                         *)
(*   Spec         one run of runPipeline against nondeterministic adapters *)
(*   SpecRetry    one invocation of withRetry (either implementation)      *)
(*   SpecScore    one call of calculateScore of the matcher agent          *)
(*   SpecCategory the score-to-category thresholds applied to two scores   *)
(*   SpecMatch    one call of matchWithRules of the matcher agent          *)
(*   SpecEval     several interleaved calls of runMatcherAgent              *)
(*   SpecProgress one call of calculateOverallProgress                     *)
(*   SpecCache    interleaved calls of extractTrialData on the shared cache *)
(*   SpecOptions  one run of runPipeline with unvalidated options           *)
(*   SpecBatch    one call of extractMultipleTrials                         *)
(*   SpecTier     calls of the free-tier functions in one browser session   *)
(*   SpecAgent    one call of runAgent of the Toolhouse client              *)
(***************************************************************************)
EXTENDS Integers, Sequences, FiniteSets, TLC

\* ------------------------------------------------------------------------
\* Bounds of the model
\* ------------------------------------------------------------------------
MaxFound == 3
MaxTrialsOpt == 3
MaxConc == 2
MaxRetriesOpt == 3
MaxFactors == 3
MaxBlocking == 3
MaxUncertain == 2
MaxInclusion == 2
MaxExclusion == 1
MaxSameWeight == 6
NumEvals == 3
NumExtractCalls == 3
MaxClears == 1
MaxEvents == 20
MaxBatchIds == 3
MaxWorkers == 2
MaxTierCalls == 7

\* ------------------------------------------------------------------------
\* Program constants
\* ------------------------------------------------------------------------
DefaultMaxRetries == 2
DefaultBaseDelayMs == 1000

PIPELINE_STEPS == <<"scout", "extractor", "matcher", "advocate">>

CancelMessage == "Pipeline cancelled by user"

\* Error messages an adapter call can fail with: two that the Toolhouse
\* classifier treats as transient and one it treats as fatal.
RetryErrors == {"rate limit", "timeout", "not found"}
AdapterErrors == {"timeout", "not found"}

\* Scores a matcher call can return (two bands, so that ties occur).
Scores == {20, 80}

\* Base delays tried for an isolated withRetry invocation.
BaseDelays == {500, 1000}

\* What the caller's progress callback does about cancellation: nothing, or
\* abort() as soon as it is told that the scout step is complete.
AbortOnChoices == {"none", "scout"}

\* runScoutAgent keeps at most this many trials
MAX_TRIALS_TO_RETURN == 5

\* Errors queryClinicalTrials throws on a response that is not ok
QueryErrors == {"Rate limit exceeded. Please try again later.",
                "ClinicalTrials.gov API error"}

VARIABLES
  \* ---- runPipeline ----
  pc,               \* position of runPipeline
  aborted,          \* abortSignal.aborted
  abortOn,          \* stage whose 'complete' event makes the caller's callback abort
  maxTrials,        \* options.maxTrials
  concurrency,      \* options.concurrency
  trials,           \* scoutResult.trials.slice(0, maxTrials)
  logs,             \* logs
  completedSteps,   \* completedSteps
  emitted,          \* the calls made to onProgress, in order
  call,             \* retry state of the single call in flight (scout, advocate)
  i,                \* loop index of the chunk loop in progress
  batch,            \* batch of the chunk in flight
  ops,              \* promise state of each operation of the chunk in flight
  eligibilityMap,   \* eligibilityMap: nctId -> criteria
  extractionErrors, \* extractionErrors
  trialsWithCriteria,
  matchResults,     \* matchResults
  matchErrors,      \* matchErrors
  voiceScript,      \* voiceScript
  result,           \* the PipelineResult returned
  thrown,           \* the error runPipeline rejected with
  \* ---- history of the run (observations, not program state) ----
  scoutResult,      \* what runScoutAgent fulfilled with, once it has
  advocateSettled,  \* how the advocate call settled: "pending", "fulfilled", "rejected"
  adapterCalls,     \* the adapter calls issued so far
  chunksSettled,    \* chunks of the current batch whose operations all settled
  opStarts,         \* for each operation started: stage, position, chunksSettled then
  abortAt,          \* number of onProgress calls made when abortSignal fired
  \* ---- one withRetry invocation in isolation ----
  rImpl,            \* "coordinator" or "toolhouse"
  rMaxRetries,      \* maxRetries
  rBaseDelay,       \* baseDelayMs
  rCall,            \* retry state
  rHistory,         \* outcome of each attempt made, in order
  rWaits,           \* the backoff waits made, in order
  \* ---- one calculateScore call ----
  sMatching,        \* matchingFactors
  sBlocking,        \* blockingFactors
  sUncertain,       \* uncertainFactors
  sOut,             \* what calculateScore returned
  \* ---- the category thresholds on two scores ----
  cScores,          \* the two scores
  cCategories,      \* their categories
  \* ---- one matchWithRules call ----
  mProfile,         \* profile
  mCriteria,        \* criteria
  mResult,          \* the MatchResult returned
  \* ---- several calls of runMatcherAgent ----
  jobs,             \* per call: input, phase, the MatchResult it resolved with
  \* ---- one calculateOverallProgress call ----
  gSteps,           \* steps
  gOut,             \* what calculateOverallProgress returned
  \* ---- calls of extractTrialData on the extraction cache ----
  extractionCache,  \* extractionCache: nctId -> extraction
  xCalls,           \* per call: nctId, phase, what it resolved with
  cacheWrites,      \* the keys given to extractionCache.set, in order
  cacheClears,      \* number of clearExtractionCache calls made
  \* ---- one call of extractMultipleTrials ----
  bNctIds,          \* nctIds
  bConcurrency,     \* concurrency
  queue,            \* queue
  workers,          \* per worker (processNext call): phase, the call it awaits
  results,          \* results: nctId -> extraction or Error
  taken,            \* the queue.shift() made, in order: worker, nctId
  bReturned,        \* the map extractMultipleTrials resolved with
  bPhase,           \* "idle", "running" (called, not resolved), "returned"
  \* ---- the free-tier state of a browser session ----
  stored,           \* sessionStorage item FREE_MATCHES_KEY: present, text
  urlPayment,       \* the 'payment' parameter of window.location.search
  tLast,            \* the last call made and what it returned
  tCalls,           \* number of calls made
  tGranted,         \* grantUnlimitedMatches ran and resetFreeMatches has not since
  \* ---- one call of runAgent (its withRetry uses the retry variables) ----
  aAgentId,         \* agentId
  aResult,          \* the AgentResult runAgent resolved with
  aReturned         \* the values the attempts returned, in order

pvars == <<pc, aborted, maxTrials, concurrency, trials, logs, completedSteps,
           emitted, call, i, batch, ops, eligibilityMap, extractionErrors,
           trialsWithCriteria, matchResults, matchErrors, voiceScript, result,
           thrown, scoutResult, advocateSettled, adapterCalls,
           chunksSettled, opStarts, abortOn, abortAt>>

rvars == <<rImpl, rMaxRetries, rBaseDelay, rCall, rHistory, rWaits>>

evalVars == <<jobs>>

progressVars == <<gSteps, gOut>>

cacheVars == <<extractionCache, xCalls, cacheWrites, cacheClears>>

batchVars == <<bNctIds, bConcurrency, queue, workers, results, taken, bReturned,
               bPhase>>

tierVars == <<stored, urlPayment, tLast, tCalls, tGranted>>

agentVars == <<aAgentId, aResult, aReturned>>

yvars == <<batchVars, tierVars, agentVars>>

xvars == <<evalVars, progressVars, cacheVars, yvars>>

evars == <<sMatching, sBlocking, sUncertain, sOut, cScores, cCategories,
           mProfile, mCriteria, mResult, xvars>>

vars == <<pvars, rvars, evars>>

\* ------------------------------------------------------------------------
\* Helpers
\* ------------------------------------------------------------------------
Pow2(n) == IF n <= 0 THEN 1 ELSE 2 ^ n

Min(a, b) == IF a < b THEN a ELSE b

\* Array.prototype.slice(from, to) for 0 <= from, 0 <= to (0-based, to exclusive)
Slice_inclusiveEnd(s, from, to) ==
  LET hi == Min(to + 1, Len(s))
  IN IF from >= hi THEN <<>> ELSE [k \in 1..(hi - from) |-> s[from + k]]

Slice(s, from, to) ==
  LET hi == Min(to, Len(s))
  IN IF from >= hi THEN <<>> ELSE [k \in 1..(hi - from) |-> s[from + k]]

\* Math.round(num / den) for num >= 0, den > 0
RoundDiv(num, den) == (2 * num + den) \div (2 * den)

SeqToSet(s) == {s[k] : k \in 1..Len(s)}

\* ------------------------------------------------------------------------
\* withRetry (lib/orchestrator.ts) as a state machine over a retry state
\*   attempt   the loop variable
\*   phase     "call" (fn in flight), "sleep" (backoff), "fulfilled", "rejected"
\*   lastError lastError ("none" = undefined)
\*   value     the value returned
\* ------------------------------------------------------------------------
NoCall == [attempt |-> 0, phase |-> "idle", lastError |-> "none", value |-> 0]

withRetryStart(maxRetries) ==
  IF 0 <= maxRetries
    THEN [attempt |-> 0, phase |-> "call", lastError |-> "none", value |-> 0]
    ELSE [attempt |-> 0, phase |-> "rejected", lastError |-> "none", value |-> 0]

withRetryReturn(r, v) ==
  [attempt |-> 0, phase |-> "fulfilled", lastError |-> "none", value |-> v]

withRetryCatch(r, err, maxRetries) ==
  IF r.attempt < maxRetries
    THEN [r EXCEPT !.phase = "sleep", !.lastError = err]
    ELSE [attempt |-> 0, phase |-> "rejected", lastError |-> err, value |-> 0]

withRetryDelay_linear(r, baseDelayMs) == baseDelayMs * (r.attempt + 1)

withRetryDelay(r, baseDelayMs) == baseDelayMs * Pow2(r.attempt)

withRetryWake(r, maxRetries) ==
  IF r.attempt + 1 <= maxRetries
    THEN [r EXCEPT !.phase = "call", !.attempt = @ + 1]
    ELSE [attempt |-> 0, phase |-> "rejected", lastError |-> r.lastError, value |-> 0]

\* ------------------------------------------------------------------------
\* withRetry (Toolhouse agent runner)
\* ------------------------------------------------------------------------
isRetryable(err) ==
  LET isRateLimited == err = "rate limit"
      isTimeout == err = "timeout"
  IN isRateLimited \/ isTimeout

thWithRetryStart(maxRetries) ==
  IF 0 < maxRetries
    THEN [attempt |-> 0, phase |-> "call", lastError |-> "none", value |-> 0]
    ELSE [attempt |-> 0, phase |-> "rejected", lastError |-> "none", value |-> 0]

thWithRetryCatch(r, err, maxRetries) ==
  IF ~isRetryable(err) \/ r.attempt = maxRetries - 1
    THEN [attempt |-> 0, phase |-> "rejected", lastError |-> err, value |-> 0]
    ELSE [r EXCEPT !.phase = "sleep", !.lastError = err]

thWithRetryWake(r, maxRetries) ==
  IF r.attempt + 1 < maxRetries
    THEN [r EXCEPT !.phase = "call", !.attempt = @ + 1]
    ELSE [attempt |-> 0, phase |-> "rejected", lastError |-> r.lastError, value |-> 0]

\* ------------------------------------------------------------------------
\* Score calculation of the matcher agent (calculateScore)
\* ------------------------------------------------------------------------
CRITERIA_WEIGHTS ==
  [diagnosis |-> 10, biomarker |-> 9, stage |-> 8, ecog |-> 7,
   treatment |-> 6, demographics |-> 5, other |-> 3]

Max(a, b) == IF a > b THEN a ELSE b

\* matchingFactors.reduce((sum, f) => sum + f.weight, 0)
RECURSIVE SumWeights(_)
SumWeights(factors) ==
  IF factors = <<>> THEN 0
  ELSE SumWeights(SubSeq(factors, 1, Len(factors) - 1)) + factors[Len(factors)].weight

\* Object.values(w).reduce((a, b) => a + b, 0)
RECURSIVE SumValues(_, _)
SumValues(w, keys) ==
  IF keys = {} THEN 0
  ELSE LET k == CHOOSE x \in keys : TRUE
       IN w[k] + SumValues(w, keys \ {k})

\* the if / else-if chain that turns the final score into a category
categoryOf_exclusiveBounds(score) ==
  IF score > 75 THEN "strong_match"
  ELSE IF score > 50 THEN "possible_match"
  ELSE IF score > 25 THEN "future_potential"
  ELSE "not_eligible"

categoryOf(score) ==
  IF score >= 75 THEN "strong_match"
  ELSE IF score >= 50 THEN "possible_match"
  ELSE IF score >= 25 THEN "future_potential"
  ELSE "not_eligible"

calculateScore_unclamped(matchingFactors, blockingFactors, uncertainFactors) ==
  IF Len(blockingFactors) > 0
    THEN [score |-> 20 - Len(blockingFactors) * 10, category |-> "not_eligible"]
    ELSE LET totalWeight == SumWeights(matchingFactors)
             maxPossibleWeight == SumValues(CRITERIA_WEIGHTS, DOMAIN CRITERIA_WEIGHTS)
             uncertaintyPenalty == Len(uncertainFactors) * 5
             raw == RoundDiv(totalWeight * 100, maxPossibleWeight) - uncertaintyPenalty
             score == Max(0, Min(100, raw))
         IN [score |-> score, category |-> categoryOf(score)]

calculateScore_blockedFrom40(matchingFactors, blockingFactors, uncertainFactors) ==
  IF Len(blockingFactors) > 0
    THEN [score |-> Max(0, 40 - Len(blockingFactors) * 10), category |-> "not_eligible"]
    ELSE LET totalWeight == SumWeights(matchingFactors)
             maxPossibleWeight == SumValues(CRITERIA_WEIGHTS, DOMAIN CRITERIA_WEIGHTS)
             uncertaintyPenalty == Len(uncertainFactors) * 5
             raw == RoundDiv(totalWeight * 100, maxPossibleWeight) - uncertaintyPenalty
             score == Max(0, Min(100, raw))
         IN [score |-> score, category |-> categoryOf(score)]

calculateScore_floor(matchingFactors, blockingFactors, uncertainFactors) ==
  IF Len(blockingFactors) > 0
    THEN [score |-> Max(0, 20 - Len(blockingFactors) * 10), category |-> "not_eligible"]
    ELSE LET totalWeight == SumWeights(matchingFactors)
             maxPossibleWeight == SumValues(CRITERIA_WEIGHTS, DOMAIN CRITERIA_WEIGHTS)
             uncertaintyPenalty == Len(uncertainFactors) * 5
             raw == ((totalWeight * 100) \div maxPossibleWeight) - uncertaintyPenalty
             score == Max(0, Min(100, raw))
         IN [score |-> score, category |-> categoryOf(score)]

calculateScore(matchingFactors, blockingFactors, uncertainFactors) ==
  IF Len(blockingFactors) > 0
    THEN [score |-> Max(0, 20 - Len(blockingFactors) * 10), category |-> "not_eligible"]
    ELSE LET totalWeight == SumWeights(matchingFactors)
             maxPossibleWeight == SumValues(CRITERIA_WEIGHTS, DOMAIN CRITERIA_WEIGHTS)
             uncertaintyPenalty == Len(uncertainFactors) * 5
             raw == RoundDiv(totalWeight * 100, maxPossibleWeight) - uncertaintyPenalty
             score == Max(0, Min(100, raw))
         IN [score |-> score, category |-> categoryOf(score)]

\* ------------------------------------------------------------------------
\* Text handling of the matcher agent: a string is a sequence of characters
\* ------------------------------------------------------------------------
UpperChars == <<"A", "B", "C", "D", "E", "F", "G", "H", "I", "J", "K", "L", "M", "N", "O", "P", "Q", "R", "S", "T", "U", "V", "W", "X", "Y", "Z">>

LowerChars == <<"a", "b", "c", "d", "e", "f", "g", "h", "i", "j", "k", "l", "m", "n", "o", "p", "q", "r", "s", "t", "u", "v", "w", "x", "y", "z">>

DigitChars == <<"0", "1", "2", "3", "4", "5", "6", "7", "8", "9">>

\* one character of String.prototype.toLowerCase
toLowerChar(c) ==
  IF \E k \in 1..Len(UpperChars) : UpperChars[k] = c
    THEN LowerChars[CHOOSE k \in 1..Len(UpperChars) : UpperChars[k] = c]
    ELSE c

toLowerCase(s) == [k \in 1..Len(s) |-> toLowerChar(s[k])]

\* s.toLowerCase().replace(/[^a-z0-9]/g, '')
normalize(s) ==
  LET isAlnum(c) == c \in SeqToSet(LowerChars) \cup SeqToSet(DigitChars)
  IN SelectSeq(toLowerCase(s), isAlnum)

\* w occurs in s at 0-based offset p
At(s, p, w) ==
  /\ p + Len(w) <= Len(s)
  /\ \A k \in 1..Len(w) : s[p + k] = w[k]

\* String.prototype.includes
includes(s, w) == \E p \in 0..Len(s) : At(s, p, w)

\* s.split(' ')[0]
firstWord(s) ==
  LET spaces == {k \in 1..Len(s) : s[k] = " "}
  IN IF spaces = {} THEN s
     ELSE SubSeq(s, 1, (CHOOSE k \in spaces : \A j \in spaces : k <= j) - 1)

\* parseInt of one digit character
digitValue(c) == (CHOOSE k \in 1..Len(DigitChars) : DigitChars[k] = c) - 1

isDigit(c) == c \in SeqToSet(DigitChars)

\* offsets reachable from the offsets P over \s*
skipSpaces(s, P) ==
  {q \in 0..Len(s) : \E p \in P : p <= q /\ \A k \in (p + 1)..q : s[k] = " "}

\* offsets reachable from the offsets P over an optional one of the words
skipOptional(s, P, words) ==
  P \cup {q \in 0..Len(s) : \E p \in P : \E w \in words : At(s, p, w) /\ q = p + Len(w)}

\* the texts the profiles and criteria of the model are made of
TxtEGFR ==
  <<"E", "G", "F", "R">>

TxtPDL1 ==
  <<"P", "D", "-", "L", "1">>

TxtSurgery ==
  <<"S", "u", "r", "g", "e", "r", "y">>

TxtHormoneTherapy ==
  <<"H", "o", "r", "m", "o", "n", "e", " ", "t", "h", "e", "r", "a", "p", "y">>

TxtNSCLC ==
  <<"N", "S", "C", "L", "C">>

TxtConfirmedNSCLC ==
  <<"C", "o", "n", "f", "i", "r", "m", "e", "d", " ", "N", "S", "C", "L", "C">>

TxtEGFRMutation ==
  <<"E", "G", "F", "R", " ", "m", "u", "t", "a", "t", "i", "o", "n">>

TxtECOG01 ==
  <<"E", "C", "O", "G", " ", "0", "-", "1">>

TxtECOGPerformanceStatus01 ==
  <<"E", "C", "O", "G", " ", "p", "e", "r", "f", "o", "r", "m", "a", "n", "c", "e", " ", "s", "t", "a", "t", "u", "s", " ", "0", "-", "1">>

TxtPriorSurgery ==
  <<"P", "r", "i", "o", "r", " ", "s", "u", "r", "g", "e", "r", "y">>

TxtPriorHormoneTherapy ==
  <<"P", "r", "i", "o", "r", " ", "h", "o", "r", "m", "o", "n", "e", " ", "t", "h", "e", "r", "a", "p", "y">>

TxtPDL1Negative ==
  <<"P", "D", "-", "L", "1", " ", "n", "e", "g", "a", "t", "i", "v", "e">>

TxtActiveInfection ==
  <<"A", "c", "t", "i", "v", "e", " ", "i", "n", "f", "e", "c", "t", "i", "o", "n">>

TxtEcog == <<"e", "c", "o", "g">>

TxtPerformanceStatus ==
  <<"p", "e", "r", "f", "o", "r", "m", "a", "n", "c", "e", " ", "s", "t", "a", "t", "u", "s">>

TxtPs == <<"p", "s">>

TxtScore == <<"s", "c", "o", "r", "e">>

TxtOf == <<"o", "f">>

TxtPrior == <<"p", "r", "i", "o", "r">>

TxtPrevious == <<"p", "r", "e", "v", "i", "o", "u", "s">>

TxtMustHaveReceived ==
  <<"m", "u", "s", "t", " ", "h", "a", "v", "e", " ", "r", "e", "c", "e", "i", "v", "e", "d">>

\* ------------------------------------------------------------------------
\* Rule-based matching of the matcher agent (matchWithRules)
\* A template string is kept as its fixed part (label), the text put into
\* it (detail) and the numbers put into it (nums).
\* ------------------------------------------------------------------------
Note(label, detail, nums) == [label |-> label, detail |-> detail, nums |-> nums]

\* criterion.match(/ecog\s*(?:ps|score)?\s*(?:of\s*)?(\d)(?:\s*-\s*(\d))?/i),
\* on the lower-cased text L (the i flag); offsets are 0-based
\* the offsets of P at which a digit stands
ecogDigitAt(L, P) == {d \in P : d < Len(L) /\ isDigit(L[d + 1])}

\* (?:of\s*)? from the offsets C
ecogSkipOf(L, C) ==
  C \cup skipSpaces(L, {q + Len(TxtOf) : q \in {c \in C : At(L, c, TxtOf)}})

\* the offset of the first captured digit when "ecog" stands at offset p
ecogFirstDigit(L, p) ==
  ecogDigitAt(L,
    ecogSkipOf(L,
      skipSpaces(L,
        skipOptional(L, skipSpaces(L, {p + Len(TxtEcog)}), {TxtPs, TxtScore}))))

\* (?:\s*-\s*(\d))? after the first digit at offset d
ecogSecondDigit(L, d) ==
  ecogDigitAt(L,
    skipSpaces(L, {r + 1 : r \in {x \in skipSpaces(L, {d + 1}) :
                                   x < Len(L) /\ L[x + 1] = "-"}}))

\* minECOG and maxECOG from the captures
ecogCaptures(L, d, second) ==
  [found |-> TRUE, min |-> digitValue(L[d + 1]),
   max |-> IF second = {} THEN digitValue(L[d + 1])
           ELSE digitValue(L[(CHOOSE x \in second : TRUE) + 1])]

ecogCapturesAt(L, d) == ecogCaptures(L, d, ecogSecondDigit(L, d))

\* the leftmost match among the offsets where one starts
ecogMatchAmong(L, starts) ==
  IF starts = {} THEN [found |-> FALSE, min |-> 0, max |-> 0]
  ELSE ecogCapturesAt(L,
         CHOOSE d \in ecogFirstDigit(L, CHOOSE x \in starts : \A y \in starts : x <= y) : TRUE)

ecogMatchIn(L) ==
  ecogMatchAmong(L, {p \in 0..Len(L) : At(L, p, TxtEcog) /\ ecogFirstDigit(L, p) /= {}})

ecogMatch(criterion) == ecogMatchIn(toLowerCase(criterion))

checkECOG(patientECOG, criteria) ==
  LET all == criteria.inclusionCriteria \o criteria.exclusionCriteria
      mentions(c) ==
        \/ includes(toLowerCase(c.criterion), TxtEcog)
        \/ includes(toLowerCase(c.criterion), TxtPerformanceStatus)
      found == SelectSeq(all, mentions)
  IN IF found = <<>> THEN [match |-> TRUE, reason |-> Note("", <<>>, <<>>)]
     ELSE LET m == ecogMatch(found[1].criterion)
          IN IF ~m.found THEN [match |-> TRUE, reason |-> Note("", <<>>, <<>>)]
             ELSE IF patientECOG >= m.min /\ patientECOG <= m.max
               THEN [match |-> TRUE, reason |-> Note("", <<>>, <<>>)]
               ELSE [match |-> FALSE,
                     reason |-> Note("ECOG score outside required range", <<>>,
                                     <<patientECOG, m.min, m.max>>)]

\* criteria of one category, in order
ofCategory(list, category) ==
  LET is(c) == c.category = category
  IN SelectSeq(list, is)

criterionTexts(list) == [k \in 1..Len(list) |-> list[k].criterion]

checkBiomarkers(patientBiomarkers, criteria) ==
  LET biomarkerCriteria == ofCategory(criteria.inclusionCriteria, "biomarker")
      excludedBiomarkers == ofCategory(criteria.exclusionCriteria, "biomarker")
      normalizedPatient == [k \in 1..Len(patientBiomarkers) |-> normalize(patientBiomarkers[k])]
      hasMatch(c) ==
        LET criterionNorm == normalize(c.criterion)
        IN \E k \in 1..Len(normalizedPatient) :
             \/ includes(criterionNorm, normalizedPatient[k])
             \/ includes(normalizedPatient[k], criterionNorm)
      hasNoMatch(c) == ~hasMatch(c)
  IN [matches |-> criterionTexts(SelectSeq(biomarkerCriteria, hasMatch)),
      conflicts |-> criterionTexts(SelectSeq(excludedBiomarkers, hasMatch)),
      uncertain |-> criterionTexts(SelectSeq(biomarkerCriteria, hasNoMatch))]

checkTreatmentHistory(previousTreatments, criteria) ==
  LET treatmentInclusion == ofCategory(criteria.inclusionCriteria, "treatment")
      treatmentExclusion == ofCategory(criteria.exclusionCriteria, "treatment")
      normalizedTreatments ==
        [k \in 1..Len(previousTreatments) |-> normalize(previousTreatments[k])]
      mentioned(c) ==
        \E k \in 1..Len(normalizedTreatments) :
          includes(toLowerCase(c.criterion), normalizedTreatments[k])
      required(c) ==
        /\ \/ includes(toLowerCase(c.criterion), TxtPrior)
           \/ includes(toLowerCase(c.criterion), TxtPrevious)
           \/ includes(toLowerCase(c.criterion), TxtMustHaveReceived)
        /\ mentioned(c)
      prior == SelectSeq(treatmentInclusion, required)
      excluded == SelectSeq(treatmentExclusion, mentioned)
  IN [matches |-> [k \in 1..Len(prior) |->
                     Note("Prior ...", Slice(prior[k].criterion, 0, 50), <<>>)],
      conflicts |-> [k \in 1..Len(excluded) |->
                       Note("Excluded: ...", Slice(excluded[k].criterion, 0, 50), <<>>)]]

generateSummary(category, matchingFactors, blockingFactors) ==
  IF category = "not_eligible" /\ Len(blockingFactors) > 0
    THEN [template |-> "may not be a good fit", insert |-> blockingFactors[1].reason]
  ELSE IF category = "strong_match"
    THEN [template |-> "strong match",
          insert |-> IF Len(matchingFactors) > 0 THEN matchingFactors[1].factor
                     ELSE Note("your profile", <<>>, <<>>)]
  ELSE IF category = "possible_match"
    THEN [template |-> "could potentially be a fit", insert |-> Note("", <<>>, <<>>)]
  ELSE [template |-> "might become an option", insert |-> Note("", <<>>, <<>>)]

matchWithRules(profile, criteria, nctId) ==
  LET ecogResult == checkECOG(profile.ecogScore, criteria)
      biomarkerResult == checkBiomarkers(profile.biomarkers, criteria)
      treatmentResult == checkTreatmentHistory(profile.previousTreatments, criteria)
      diagnosisCriteria == ofCategory(criteria.inclusionCriteria, "diagnosis")
      diagnosisLower == toLowerCase(profile.diagnosis)
      hasMatch ==
        \E k \in 1..Len(diagnosisCriteria) :
          \/ includes(toLowerCase(diagnosisCriteria[k].criterion), diagnosisLower)
          \/ includes(diagnosisLower, firstWord(toLowerCase(diagnosisCriteria[k].criterion)))
      matchingFactors ==
        (IF ecogResult.match
           THEN <<[factor |-> Note("ECOG score meets requirements", <<>>, <<profile.ecogScore>>),
                   weight |-> CRITERIA_WEIGHTS.ecog]>>
           ELSE <<>>)
        \o [k \in 1..Len(biomarkerResult.matches) |->
              [factor |-> Note("Biomarker match:", Slice(biomarkerResult.matches[k], 0, 40), <<>>),
               weight |-> CRITERIA_WEIGHTS.biomarker]]
        \o [k \in 1..Len(treatmentResult.matches) |->
              [factor |-> treatmentResult.matches[k], weight |-> CRITERIA_WEIGHTS.treatment]]
        \o (IF Len(diagnosisCriteria) > 0 /\ hasMatch
              THEN <<[factor |-> Note("Diagnosis matches trial requirements", <<>>, <<>>),
                      weight |-> CRITERIA_WEIGHTS.diagnosis]>>
              ELSE <<>>)
      blockingFactors ==
        (IF ~ecogResult.match
           THEN <<[factor |-> "ECOG Score", reason |-> ecogResult.reason]>>
           ELSE <<>>)
        \o [k \in 1..Len(biomarkerResult.conflicts) |->
              [factor |-> "Biomarker",
               reason |-> Note("", biomarkerResult.conflicts[k], <<>>)]]
        \o [k \in 1..Len(treatmentResult.conflicts) |->
              [factor |-> "Treatment History", reason |-> treatmentResult.conflicts[k]]]
      uncertainFactors ==
        [k \in 1..Len(biomarkerResult.uncertain) |->
           Note("", Slice(biomarkerResult.uncertain[k], 0, 50), <<>>)]
        \o (IF Len(diagnosisCriteria) > 0 /\ ~hasMatch
              THEN <<Note("Diagnosis alignment needs confirmation", <<>>, <<>>)>>
              ELSE <<>>)
      sc == calculateScore(matchingFactors, blockingFactors, uncertainFactors)
  IN [done |-> TRUE, nctId |-> nctId, score |-> sc.score, category |-> sc.category,
      matchingFactors |-> matchingFactors, blockingFactors |-> blockingFactors,
      uncertainFactors |-> uncertainFactors,
      summary |-> generateSummary(sc.category, matchingFactors, blockingFactors)]

\* nothing returned yet
NoResult ==
  [done |-> FALSE, nctId |-> 0, score |-> 0, category |-> "none",
   matchingFactors |-> <<>>, blockingFactors |-> <<>>, uncertainFactors |-> <<>>,
   summary |-> [template |-> "", insert |-> Note("", <<>>, <<>>)]]

MatchIdle ==
  /\ mProfile = [diagnosis |-> <<>>, biomarkers |-> <<>>, ecogScore |-> 0,
                 previousTreatments |-> <<>>]
  /\ mCriteria = [inclusionCriteria |-> <<>>, exclusionCriteria |-> <<>>]
  /\ mResult = NoResult

\* nothing returned yet
NoScore == [done |-> FALSE, score |-> 0, category |-> "none"]

ScoreIdle ==
  /\ sMatching = <<>>
  /\ sBlocking = <<>>
  /\ sUncertain = <<>>
  /\ sOut = NoScore

CategoryIdle ==
  /\ cScores = <<>>
  /\ cCategories = <<>>

EvalIdle == jobs = <<>>

\* nothing returned yet
NoNumber == [done |-> FALSE, value |-> 0]

ProgressIdle ==
  /\ gSteps = <<>>
  /\ gOut = NoNumber

CacheIdle ==
  /\ extractionCache = <<>>
  /\ xCalls = <<>>
  /\ cacheWrites = <<>>
  /\ cacheClears = 0

NoMap == [done |-> FALSE, map |-> <<>>]

BatchIdle ==
  /\ bNctIds = <<>>
  /\ bConcurrency = 0
  /\ queue = <<>>
  /\ workers = <<>>
  /\ results = <<>>
  /\ taken = <<>>
  /\ bReturned = NoMap
  /\ bPhase = "idle"

NoItem == [present |-> FALSE, text |-> <<>>]

NoTierCall == [fn |-> "none", value |-> 0]

TierIdle ==
  /\ stored = NoItem
  /\ urlPayment = "none"
  /\ tLast = NoTierCall
  /\ tCalls = 0
  /\ tGranted = FALSE

NoAgentResult == [done |-> FALSE, success |-> FALSE, output |-> 0, error |-> "none"]

AgentIdle ==
  /\ aAgentId = "none"
  /\ aResult = NoAgentResult
  /\ aReturned = <<>>

LateIdle == BatchIdle /\ TierIdle /\ AgentIdle

ExtraIdle == EvalIdle /\ ProgressIdle /\ CacheIdle /\ LateIdle

EngineIdle == ScoreIdle /\ CategoryIdle /\ MatchIdle /\ ExtraIdle

\* ------------------------------------------------------------------------
\* One invocation of withRetry in isolation
\* ------------------------------------------------------------------------
PipelineIdle ==
  /\ pc = "off"
  /\ aborted = FALSE
  /\ abortOn = "none"
  /\ maxTrials = 0
  /\ concurrency = 1
  /\ trials = <<>>
  /\ logs = <<>>
  /\ completedSteps = <<>>
  /\ emitted = <<>>
  /\ call = NoCall
  /\ i = 0
  /\ batch = <<>>
  /\ ops = <<>>
  /\ eligibilityMap = <<>>
  /\ extractionErrors = <<>>
  /\ trialsWithCriteria = <<>>
  /\ matchResults = <<>>
  /\ matchErrors = <<>>
  /\ voiceScript = "undefined"
  /\ result = <<>>
  /\ thrown = "none"
  /\ scoutResult = [done |-> FALSE, trials |-> <<>>, error |-> "none"]
  /\ advocateSettled = "pending"
  /\ adapterCalls = {}
  /\ chunksSettled = 0
  /\ opStarts = {}
  /\ abortAt = 0

RetryIdle ==
  /\ rImpl = "coordinator"
  /\ rMaxRetries = DefaultMaxRetries
  /\ rBaseDelay = DefaultBaseDelayMs
  /\ rCall = NoCall
  /\ rHistory = <<>>
  /\ rWaits = <<>>

InitRetry ==
  /\ PipelineIdle
  /\ rImpl \in {"coordinator", "toolhouse"}
  /\ rMaxRetries \in 0..MaxRetriesOpt
  /\ rBaseDelay \in BaseDelays
  /\ rCall = NoCall
  /\ rHistory = <<>>
  /\ rWaits = <<>>
  /\ EngineIdle

\* withRetry(fn, maxRetries, baseDelayMs) is called: the loop is entered
RetryInvoke ==
  /\ rCall.phase = "idle"
  /\ rCall' = IF rImpl = "coordinator" THEN withRetryStart(rMaxRetries)
                                       ELSE thWithRetryStart(rMaxRetries)
  /\ UNCHANGED <<rImpl, rMaxRetries, rBaseDelay, rHistory, rWaits, pvars, evars>>

\* fn() fulfils
RetryAttemptReturns ==
  /\ rCall.phase = "call"
  /\ rCall' = withRetryReturn(rCall, 1)
  /\ rHistory' = Append(rHistory, "ok")
  /\ UNCHANGED <<rImpl, rMaxRetries, rBaseDelay, rWaits, pvars, evars>>

\* fn() rejects with err: the catch block runs up to the sleep or the throw
RetryAttemptThrows ==
  \E err \in RetryErrors :
    /\ rCall.phase = "call"
    /\ rCall' = IF rImpl = "coordinator" THEN withRetryCatch(rCall, err, rMaxRetries)
                                         ELSE thWithRetryCatch(rCall, err, rMaxRetries)
    /\ rHistory' = Append(rHistory, err)
    /\ rWaits' = IF rCall'.phase = "sleep"
                   THEN Append(rWaits, withRetryDelay(rCall, rBaseDelay))
                   ELSE rWaits
    /\ UNCHANGED <<rImpl, rMaxRetries, rBaseDelay, pvars, evars>>

\* the backoff timer fires: next iteration of the loop
RetrySleepDone ==
  /\ rCall.phase = "sleep"
  /\ rCall' = IF rImpl = "coordinator" THEN withRetryWake(rCall, rMaxRetries)
                                       ELSE thWithRetryWake(rCall, rMaxRetries)
  /\ UNCHANGED <<rImpl, rMaxRetries, rBaseDelay, rHistory, rWaits, pvars, evars>>

NextRetry ==
  \/ RetryInvoke
  \/ RetryAttemptReturns
  \/ RetryAttemptThrows
  \/ RetrySleepDone

SpecRetry == InitRetry /\ [][NextRetry]_vars


\* ------------------------------------------------------------------------
\* runPipeline (lib/orchestrator.ts)
\* The locals of one run are handled as a record s; every action applies a
\* continuation of the function body to the current record.
\* ------------------------------------------------------------------------
Cur ==
  [pc |-> pc, aborted |-> aborted, maxTrials |-> maxTrials,
   concurrency |-> concurrency, trials |-> trials, logs |-> logs,
   completedSteps |-> completedSteps, emitted |-> emitted, call |-> call,
   i |-> i, batch |-> batch, ops |-> ops, eligibilityMap |-> eligibilityMap,
   extractionErrors |-> extractionErrors,
   trialsWithCriteria |-> trialsWithCriteria, matchResults |-> matchResults,
   matchErrors |-> matchErrors, voiceScript |-> voiceScript,
   result |-> result, thrown |-> thrown, scoutResult |-> scoutResult,
   advocateSettled |-> advocateSettled, adapterCalls |-> adapterCalls,
   chunksSettled |-> chunksSettled, opStarts |-> opStarts,
   abortOn |-> abortOn, abortAt |-> abortAt]

Set(s) ==
  /\ pc' = s.pc
  /\ aborted' = s.aborted
  /\ maxTrials' = s.maxTrials
  /\ concurrency' = s.concurrency
  /\ trials' = s.trials
  /\ logs' = s.logs
  /\ completedSteps' = s.completedSteps
  /\ emitted' = s.emitted
  /\ call' = s.call
  /\ i' = s.i
  /\ batch' = s.batch
  /\ ops' = s.ops
  /\ eligibilityMap' = s.eligibilityMap
  /\ extractionErrors' = s.extractionErrors
  /\ trialsWithCriteria' = s.trialsWithCriteria
  /\ matchResults' = s.matchResults
  /\ matchErrors' = s.matchErrors
  /\ voiceScript' = s.voiceScript
  /\ result' = s.result
  /\ thrown' = s.thrown
  /\ scoutResult' = s.scoutResult
  /\ advocateSettled' = s.advocateSettled
  /\ adapterCalls' = s.adapterCalls
  /\ chunksSettled' = s.chunksSettled
  /\ opStarts' = s.opStarts
  /\ abortOn' = s.abortOn
  /\ abortAt' = s.abortAt
  /\ UNCHANGED <<rvars, evars>>

\* progress / error left undefined in createStep
NoProgress == -1
NoError == ""

createStep(id, status, progress, error) ==
  [id |-> id, status |-> status, progress |-> progress, error |-> error]

\* addLog: one entry = message template, the identifier it names, the
\* error it quotes, the score it quotes (the timestamp is left out)
addLog_newestFirst(s, msg, id, reason, score) ==
  [s EXCEPT !.logs = <<[msg |-> msg, id |-> id, reason |-> reason, score |-> score]>> \o @]

addLog(s, msg, id, reason, score) ==
  [s EXCEPT !.logs = Append(@, [msg |-> msg, id |-> id, reason |-> reason, score |-> score])]

\* onProgress(step, logs): the observer gets the step and the log so far;
\* the callback is the caller's code and may call abort() on the controller
\* whose signal it passed (here: on the 'complete' event of stage abortOn)
onProgress(s, step) ==
  LET s1 == [s EXCEPT !.emitted = Append(@, [step |-> step, logLen |-> Len(s.logs)])]
  IN IF ~s1.aborted /\ step.status = "complete" /\ step.id = s1.abortOn
       THEN [s1 EXCEPT !.aborted = TRUE, !.abortAt = Len(s1.emitted)]
       ELSE s1

pushStep_dropped(s, step) == s

pushStep(s, step) == [s EXCEPT !.completedSteps = Append(@, step)]

\* Map.prototype.get: undefined (0) for an absent key
NoCriteria == 0

MapGet(m, key) == IF key \in DOMAIN m THEN m[key] ELSE NoCriteria

\* Map.prototype.set
MapSet(m, key, v) == [x \in (DOMAIN m) \cup {key} |-> IF x = key THEN v ELSE m[x]]

Settled(r) == r.phase \in {"fulfilled", "rejected"}

\* the catch block of runPipeline: log, mark the failed step, rethrow
catchBlock_lastCompleted(s, errorMessage) ==
  LET s1 == addLog(s, "Pipeline error", 0, errorMessage, 0)
      failedStepId ==
        IF Len(s1.completedSteps) = 0
          THEN "scout"
          ELSE PIPELINE_STEPS[Len(s1.completedSteps)]
      s2 == pushStep(s1, createStep(failedStepId, "error", NoProgress, errorMessage))
  IN [s2 EXCEPT !.pc = "thrown", !.thrown = errorMessage,
                !.call = NoCall, !.batch = <<>>, !.ops = <<>>]

catchBlock(s, errorMessage) ==
  LET s1 == addLog(s, "Pipeline error", 0, errorMessage, 0)
      failedStepId ==
        IF Len(s1.completedSteps) < Len(PIPELINE_STEPS)
          THEN PIPELINE_STEPS[Len(s1.completedSteps) + 1]
          ELSE "advocate"
      s2 == pushStep(s1, createStep(failedStepId, "error", NoProgress, errorMessage))
  IN [s2 EXCEPT !.pc = "thrown", !.thrown = errorMessage,
                !.call = NoCall, !.batch = <<>>, !.ops = <<>>]

\* matchResults.sort((a, b) => b.score - a.score): stable, descending
RECURSIVE InsertByScore_unstable(_, _)
InsertByScore_unstable(sorted, x) ==
  IF sorted = <<>> THEN <<x>>
  ELSE IF sorted[Len(sorted)].score > x.score THEN Append(sorted, x)
  ELSE Append(InsertByScore_unstable(SubSeq(sorted, 1, Len(sorted) - 1), x),
              sorted[Len(sorted)])

RECURSIVE InsertByScore(_, _)
InsertByScore(sorted, x) ==
  IF sorted = <<>> THEN <<x>>
  ELSE IF sorted[Len(sorted)].score >= x.score THEN Append(sorted, x)
  ELSE Append(InsertByScore(SubSeq(sorted, 1, Len(sorted) - 1), x), sorted[Len(sorted)])

RECURSIVE SortByScoreDesc(_)
SortByScoreDesc(s) ==
  IF s = <<>> THEN <<>>
  ELSE InsertByScore(SortByScoreDesc(SubSeq(s, 1, Len(s) - 1)), s[Len(s)])

\* the end of the body: the advocate step is marked and the result returned
finish_errorWithoutVoice(s) ==
  LET status == IF s.voiceScript = "undefined" THEN "error" ELSE "complete"
      s1 == pushStep(s, createStep("advocate", status, NoProgress, NoError))
      s2 == onProgress(s1, createStep("advocate", status, NoProgress, NoError))
  IN [s2 EXCEPT !.pc = "returned", !.call = NoCall,
                !.result = [trials |-> s2.trialsWithCriteria,
                            matchResults |-> s2.matchResults,
                            voiceScript |-> s2.voiceScript,
                            completedSteps |-> s2.completedSteps]]

finish(s) ==
  LET s1 == pushStep(s, createStep("advocate", "complete", NoProgress, NoError))
      s2 == onProgress(s1, createStep("advocate", "complete", NoProgress, NoError))
  IN [s2 EXCEPT !.pc = "returned", !.call = NoCall,
                !.result = [trials |-> s2.trialsWithCriteria,
                            matchResults |-> s2.matchResults,
                            voiceScript |-> s2.voiceScript,
                            completedSteps |-> s2.completedSteps]]

\* from the sort after the matching loop to the advocate call
afterMatching(s) ==
  LET s1 == [s EXCEPT !.matchResults = SortByScoreDesc(@)]
      s2 == pushStep(s1, createStep("matcher", "complete", NoProgress, NoError))
      s3 == onProgress(s2, createStep("matcher", "complete", NoProgress, NoError))
      s4 == addLog(s3, "Creating your personalized summary...", 0, "", 0)
      s5 == onProgress(s4, createStep("advocate", "running", NoProgress, NoError))
  IN IF s5.aborted THEN catchBlock(s5, CancelMessage)
     ELSE [s5 EXCEPT !.pc = "advocate",
                     !.call = withRetryStart(DefaultMaxRetries),
                     !.adapterCalls = @ \cup {[adapter |-> "advocate", nctId |-> 0, criteria |-> 0]}]

\* head of the matching loop: checkAbort, then dispatch the chunk at i
matchLoop(s) ==
  IF s.i < Len(s.trialsWithCriteria)
    THEN IF s.aborted THEN catchBlock(s, CancelMessage)
         ELSE LET b == Slice(s.trialsWithCriteria, s.i, s.i + s.concurrency)
              IN [s EXCEPT !.pc = "match", !.batch = b,
                           !.ops = [k \in 1..Len(b) |-> withRetryStart(DefaultMaxRetries)],
                           !.adapterCalls = @ \cup
                              {[adapter |-> "matcher", nctId |-> b[k],
                                criteria |-> MapGet(s.eligibilityMap, b[k])] : k \in 1..Len(b)},
                           !.opStarts = @ \cup
                              {[stage |-> "matcher", pos |-> s.i + k - 1,
                                settled |-> s.chunksSettled] : k \in 1..Len(b)}]
    ELSE afterMatching(s)

\* trials.filter((t) => eligibilityMap.has(t.nctId))
filterWithCriteria_unfiltered(trs, map) == trs

filterWithCriteria(trs, map) ==
  LET has(t) == t \in DOMAIN map
  IN SelectSeq(trs, has)

\* the return taken when no trial has criteria
noCriteriaReturn_filtered(s) ==
  LET s1 == addLog(s, "Could not extract criteria for any trials", 0, "", 0)
  IN [s1 EXCEPT !.pc = "returned",
                !.result = [trials |-> s1.trialsWithCriteria,
                            matchResults |-> <<>>,
                            voiceScript |-> "undefined",
                            completedSteps |->
                              Append(s1.completedSteps,
                                     createStep("matcher", "error", NoProgress,
                                                "No criteria extracted"))]]

noCriteriaReturn(s) ==
  LET s1 == addLog(s, "Could not extract criteria for any trials", 0, "", 0)
  IN [s1 EXCEPT !.pc = "returned",
                !.result = [trials |-> s1.trials,
                            matchResults |-> <<>>,
                            voiceScript |-> "undefined",
                            completedSteps |->
                              Append(s1.completedSteps,
                                     createStep("matcher", "error", NoProgress,
                                                "No criteria extracted"))]]

\* from the end of the extraction loop to the first matching chunk
afterExtraction(s) ==
  LET s1 == pushStep(s, createStep("extractor", "complete", NoProgress, NoError))
      s2 == onProgress(s1, createStep("extractor", "complete", NoProgress, NoError))
      s3 == [s2 EXCEPT !.trialsWithCriteria = filterWithCriteria(s2.trials, s2.eligibilityMap)]
  IN IF Len(s3.trialsWithCriteria) = 0
       THEN noCriteriaReturn(s3)
       ELSE LET s4 == addLog(s3, "Matching your profile against trials...", 0, "", 0)
                s5 == onProgress(s4, createStep("matcher", "running", 0, NoError))
            IN IF s5.aborted THEN catchBlock(s5, CancelMessage)
               ELSE matchLoop([s5 EXCEPT !.i = 0, !.chunksSettled = 0,
                                         !.matchResults = <<>>, !.matchErrors = <<>>])

\* head of the extraction loop: checkAbort, then dispatch the chunk at i
extractLoop(s) ==
  IF s.i < Len(s.trials)
    THEN IF s.aborted THEN catchBlock(s, CancelMessage)
         ELSE LET b == Slice(s.trials, s.i, s.i + s.concurrency)
              IN [s EXCEPT !.pc = "extract", !.batch = b,
                           !.ops = [k \in 1..Len(b) |-> withRetryStart(DefaultMaxRetries)],
                           !.adapterCalls = @ \cup
                              {[adapter |-> "extractor", nctId |-> b[k],
                                criteria |-> 0] : k \in 1..Len(b)},
                           !.opStarts = @ \cup
                              {[stage |-> "extractor", pos |-> s.i + k - 1,
                                settled |-> s.chunksSettled] : k \in 1..Len(b)}]
    ELSE afterExtraction(s)

\* the early return taken when the scout finds nothing
noTrialsReturn_ownSteps(s) ==
  LET s1 == addLog(s, "No matching trials found", 0, "", 0)
      s2 == pushStep(s1, createStep("scout", "complete", NoProgress, NoError))
  IN [s2 EXCEPT !.pc = "returned", !.call = NoCall,
                !.result = [trials |-> <<>>,
                            matchResults |-> <<>>,
                            voiceScript |-> "undefined",
                            completedSteps |-> s2.completedSteps]]

noTrialsReturn(s) ==
  LET s1 == addLog(s, "No matching trials found", 0, "", 0)
      s2 == pushStep(s1, createStep("scout", "complete", NoProgress, NoError))
  IN [s2 EXCEPT !.pc = "returned", !.call = NoCall,
                !.result = [trials |-> <<>>,
                            matchResults |-> <<>>,
                            voiceScript |-> "undefined",
                            completedSteps |->
                              <<createStep("scout", "complete", NoProgress, NoError),
                                createStep("extractor", "complete", NoProgress, NoError),
                                createStep("matcher", "complete", NoProgress, NoError),
                                createStep("advocate", "complete", NoProgress, NoError)>>]]

\* scoutResult.trials.slice(0, maxTrials)
topTrials_all(found, max) == found

topTrials(found, max) == Slice(found, 0, max)

\* from the scout result to the first extraction chunk
afterScout(s, found) ==
  IF Len(found) = 0
    THEN noTrialsReturn(s)
    ELSE LET s1 == [s EXCEPT !.trials = topTrials(found, s.maxTrials), !.call = NoCall]
             s2 == addLog(s1, "Found trials, processing top", Len(s1.trials), "", 0)
             s3 == pushStep(s2, createStep("scout", "complete", NoProgress, NoError))
             s4 == onProgress(s3, createStep("scout", "complete", NoProgress, NoError))
             s5 == addLog(s4, "Extracting eligibility criteria...", 0, "", 0)
             s6 == onProgress(s5, createStep("extractor", "running", 0, NoError))
         IN IF s6.aborted THEN catchBlock(s6, CancelMessage)
            ELSE extractLoop([s6 EXCEPT !.i = 0, !.chunksSettled = 0,
                                        !.eligibilityMap = <<>>,
                                        !.extractionErrors = <<>>])

\* batchResults.forEach of the extraction loop, from index k on
RECURSIVE recordExtraction_logOnly(_, _)
recordExtraction_logOnly(s, k) ==
  IF k > Len(s.batch) THEN s
  ELSE LET nctId == s.batch[k]
           r == s.ops[k]
           s1 == IF r.phase = "fulfilled"
                   THEN addLog([s EXCEPT !.eligibilityMap = MapSet(@, nctId, r.value)],
                               "Extracted criteria for", nctId, "", 0)
                   ELSE addLog(s, "Failed to extract criteria for", nctId, r.lastError, 0)
       IN recordExtraction_logOnly(s1, k + 1)

RECURSIVE recordExtraction(_, _)
recordExtraction(s, k) ==
  IF k > Len(s.batch) THEN s
  ELSE LET nctId == s.batch[k]
           r == s.ops[k]
           s1 == IF r.phase = "fulfilled"
                   THEN addLog([s EXCEPT !.eligibilityMap = MapSet(@, nctId, r.value)],
                               "Extracted criteria for", nctId, "", 0)
                   ELSE addLog([s EXCEPT !.extractionErrors = Append(@, nctId)],
                               "Failed to extract criteria for", nctId, r.lastError, 0)
       IN recordExtraction(s1, k + 1)

\* batchResults.forEach of the matching loop, from index k on
RECURSIVE recordMatching(_, _)
recordMatching(s, k) ==
  IF k > Len(s.batch) THEN s
  ELSE LET nctId == s.batch[k]
           r == s.ops[k]
           s1 == IF r.phase = "fulfilled"
                   THEN addLog([s EXCEPT !.matchResults = Append(@, r.value)],
                               "Matched", nctId, "", r.value.score)
                   ELSE addLog([s EXCEPT !.matchErrors = Append(@, nctId)],
                               "Failed to match", nctId, r.lastError, 0)
       IN recordMatching(s1, k + 1)

\* what a chunk loop does once Promise.allSettled has resolved and the
\* results are recorded: progress event, then i += concurrency
chunkDone(s, total, stage) ==
  LET progress == RoundDiv((s.i + Len(s.batch)) * 100, total)
      s1 == onProgress(s, createStep(stage, "running", progress, NoError))
  IN [s1 EXCEPT !.i = @ + s.concurrency, !.chunksSettled = @ + 1,
                !.batch = <<>>, !.ops = <<>>]

\* ---- adapters (external collaborators): what a call can produce ----
\* the k-th identifier of the registry the scout draws from (not sorted)
NctId(k) == IF k % 2 = 1 THEN k + 1 ELSE k - 1

\* the trials of the n studies of a response, transformed, filtered by
\* radius and sorted by distance
Discovered(n) == [k \in 1..n |-> NctId(k)]

\* runScoutAgent: q is how queryClinicalTrials settled. A response with n
\* studies gives the first MAX_TRIALS_TO_RETURN trials; a rejected query is
\* caught and gives no trials, with the message in searchParams.error.
runScoutAgent(q) ==
  IF q.ok
    THEN [done |-> TRUE, trials |-> Slice(Discovered(q.n), 0, MAX_TRIALS_TO_RETURN),
          error |-> "none"]
    ELSE [done |-> TRUE, trials |-> <<>>, error |-> q.error]

\* runExtractorAgent({nctId}): the criteria of that trial
ExtractorValue(nctId) == nctId

\* runMatcherAgent({patientProfile, eligibilityCriteria, nctId}): a MatchResult
MatcherValue(nctId, score) == [nctId |-> nctId, score |-> score]

\* ---- actions ----
Init ==
  /\ pc = "start"
  /\ aborted = FALSE
  /\ abortOn \in AbortOnChoices
  /\ maxTrials \in 0..MaxTrialsOpt
  /\ concurrency \in 1..MaxConc
  /\ trials = <<>>
  /\ logs = <<>>
  /\ completedSteps = <<>>
  /\ emitted = <<>>
  /\ call = NoCall
  /\ i = 0
  /\ batch = <<>>
  /\ ops = <<>>
  /\ eligibilityMap = <<>>
  /\ extractionErrors = <<>>
  /\ trialsWithCriteria = <<>>
  /\ matchResults = <<>>
  /\ matchErrors = <<>>
  /\ voiceScript = "undefined"
  /\ result = <<>>
  /\ thrown = "none"
  /\ scoutResult = [done |-> FALSE, trials |-> <<>>, error |-> "none"]
  /\ advocateSettled = "pending"
  /\ adapterCalls = {}
  /\ chunksSettled = 0
  /\ opStarts = {}
  /\ abortAt = 0
  /\ RetryIdle
  /\ EngineIdle

\* abortSignal fires (the caller's AbortController.abort())
Abort ==
  /\ pc \in {"start", "scout", "extract", "match", "advocate"}
  /\ ~aborted
  /\ Set([Cur EXCEPT !.aborted = TRUE, !.abortAt = Len(emitted)])

\* runPipeline is called: runs up to the await of the scout call
RunPipeline ==
  /\ pc = "start"
  /\ LET s1 == addLog(Cur, "Starting trial discovery...", 0, "", 0)
         s2 == onProgress(s1, createStep("scout", "running", NoProgress, NoError))
     IN Set(IF s2.aborted THEN catchBlock(s2, CancelMessage)
            ELSE [s2 EXCEPT !.pc = "scout",
                            !.call = withRetryStart(DefaultMaxRetries),
                            !.adapterCalls = @ \cup {[adapter |-> "scout", nctId |-> 0, criteria |-> 0]}])

\* the query of runScoutAgent answers with n studies: runScoutAgent fulfils
ScoutReturns ==
  \E n \in 0..MaxFound :
    /\ pc = "scout"
    /\ call.phase = "call"
    /\ LET r == runScoutAgent([ok |-> TRUE, n |-> n, error |-> "none"])
       IN Set(afterScout([Cur EXCEPT !.scoutResult = r], r.trials))

\* the query of runScoutAgent rejects: runScoutAgent catches the error and
\* fulfils all the same, so that withRetry returns at its first attempt
ScoutQueryFails ==
  \E err \in QueryErrors :
    /\ pc = "scout"
    /\ call.phase = "call"
    /\ LET r == runScoutAgent([ok |-> FALSE, n |-> 0, error |-> err])
       IN Set(afterScout([Cur EXCEPT !.scoutResult = r], r.trials))

\* runExtractorAgent fulfils for the k-th trial of the chunk
ExtractorReturns ==
  \E k \in DOMAIN ops :
    /\ pc = "extract"
    /\ ops[k].phase = "call"
    /\ Set([Cur EXCEPT !.ops[k] = withRetryReturn(@, ExtractorValue(batch[k]))])

\* runExtractorAgent rejects for the k-th trial of the chunk
ExtractorThrows ==
  \E k \in DOMAIN ops, err \in AdapterErrors :
    /\ pc = "extract"
    /\ ops[k].phase = "call"
    /\ Set([Cur EXCEPT !.ops[k] = withRetryCatch(@, err, DefaultMaxRetries)])

ExtractorSleepDone ==
  \E k \in DOMAIN ops :
    /\ pc = "extract"
    /\ ops[k].phase = "sleep"
    /\ Set([Cur EXCEPT !.ops[k] = withRetryWake(@, DefaultMaxRetries)])

\* Promise.allSettled of an extraction chunk resolves
ExtractChunkSettled ==
  /\ pc = "extract"
  /\ \A k \in DOMAIN ops : Settled(ops[k])
  /\ Set(extractLoop(chunkDone(recordExtraction(Cur, 1), Len(trials), "extractor")))

\* runMatcherAgent fulfils for the k-th trial of the chunk
MatcherReturns ==
  \E k \in DOMAIN ops, score \in Scores :
    /\ pc = "match"
    /\ ops[k].phase = "call"
    /\ Set([Cur EXCEPT !.ops[k] = withRetryReturn(@, MatcherValue(batch[k], score))])

MatcherThrows ==
  \E k \in DOMAIN ops, err \in AdapterErrors :
    /\ pc = "match"
    /\ ops[k].phase = "call"
    /\ Set([Cur EXCEPT !.ops[k] = withRetryCatch(@, err, DefaultMaxRetries)])

MatcherSleepDone ==
  \E k \in DOMAIN ops :
    /\ pc = "match"
    /\ ops[k].phase = "sleep"
    /\ Set([Cur EXCEPT !.ops[k] = withRetryWake(@, DefaultMaxRetries)])

\* Promise.allSettled of a matching chunk resolves
MatchChunkSettled ==
  /\ pc = "match"
  /\ \A k \in DOMAIN ops : Settled(ops[k])
  /\ Set(matchLoop(chunkDone(recordMatching(Cur, 1), Len(trialsWithCriteria), "matcher")))

\* runAdvocateAgent fulfils
AdvocateReturns ==
  /\ pc = "advocate"
  /\ call.phase = "call"
  /\ Set(finish(addLog([Cur EXCEPT !.voiceScript = "script",
                                   !.advocateSettled = "fulfilled"],
                       "Voice summary created successfully", 0, "", 0)))

\* runAdvocateAgent rejects
AdvocateThrows ==
  \E err \in AdapterErrors :
    /\ pc = "advocate"
    /\ call.phase = "call"
    /\ LET r == withRetryCatch(call, err, DefaultMaxRetries)
       IN Set(IF r.phase = "rejected"
                THEN finish(addLog([Cur EXCEPT !.advocateSettled = "rejected"],
                                   "Voice summary failed", 0, r.lastError, 0))
                ELSE [Cur EXCEPT !.call = r])

AdvocateSleepDone ==
  /\ pc = "advocate"
  /\ call.phase = "sleep"
  /\ Set([Cur EXCEPT !.call = withRetryWake(call, DefaultMaxRetries)])

Next ==
  \/ Abort
  \/ RunPipeline
  \/ ScoutReturns
  \/ ScoutQueryFails
  \/ ExtractorReturns
  \/ ExtractorThrows
  \/ ExtractorSleepDone
  \/ ExtractChunkSettled
  \/ MatcherReturns
  \/ MatcherThrows
  \/ MatcherSleepDone
  \/ MatchChunkSettled
  \/ AdvocateReturns
  \/ AdvocateThrows
  \/ AdvocateSleepDone

Spec == Init /\ [][Next]_vars

\* ------------------------------------------------------------------------
\* One run of runPipeline with options the caller did not validate:
\* concurrency can be 0. The run is followed for MaxEvents progress events.
\* ------------------------------------------------------------------------
InitOptions ==
  /\ pc = "start"
  /\ aborted = FALSE
  /\ abortOn \in AbortOnChoices
  /\ maxTrials \in 0..MaxTrialsOpt
  /\ concurrency \in 0..MaxConc
  /\ trials = <<>>
  /\ logs = <<>>
  /\ completedSteps = <<>>
  /\ emitted = <<>>
  /\ call = NoCall
  /\ i = 0
  /\ batch = <<>>
  /\ ops = <<>>
  /\ eligibilityMap = <<>>
  /\ extractionErrors = <<>>
  /\ trialsWithCriteria = <<>>
  /\ matchResults = <<>>
  /\ matchErrors = <<>>
  /\ voiceScript = "undefined"
  /\ result = <<>>
  /\ thrown = "none"
  /\ scoutResult = [done |-> FALSE, trials |-> <<>>, error |-> "none"]
  /\ advocateSettled = "pending"
  /\ adapterCalls = {}
  /\ chunksSettled = 0
  /\ opStarts = {}
  /\ abortAt = 0
  /\ RetryIdle
  /\ EngineIdle

NextOptions == Len(emitted) < MaxEvents /\ Next

SpecOptions == InitOptions /\ [][NextOptions]_vars

\* ------------------------------------------------------------------------
\* One call of calculateScore
\* ------------------------------------------------------------------------
SeqsUpTo(S, n) == UNION {[1..k -> S] : k \in 0..n}

Weights == {CRITERIA_WEIGHTS[k] : k \in DOMAIN CRITERIA_WEIGHTS}

\* every list of up to MaxFactors factors, and the lists of up to
\* MaxSameWeight factors of one weight (several criteria of one category)
MatchingLists ==
  SeqsUpTo({[factor |-> Note("factor", <<>>, <<>>), weight |-> w] : w \in Weights},
           MaxFactors)
  \cup {[k \in 1..n |-> [factor |-> Note("factor", <<>>, <<>>), weight |-> w]] :
          n \in 0..MaxSameWeight, w \in Weights}

BlockingLists ==
  {[k \in 1..n |-> [factor |-> "Biomarker", reason |-> Note("reason", <<>>, <<>>)]] :
     n \in 0..MaxBlocking}

UncertainLists == {[k \in 1..n |-> Note("uncertain", <<>>, <<>>)] : n \in 0..MaxUncertain}

InitScore ==
  /\ PipelineIdle
  /\ RetryIdle
  /\ CategoryIdle
  /\ MatchIdle
  /\ ExtraIdle
  /\ sMatching \in MatchingLists
  /\ sBlocking \in BlockingLists
  /\ sUncertain \in UncertainLists
  /\ sOut = NoScore

\* calculateScore(matchingFactors, blockingFactors, uncertainFactors) returns
CalculateScore ==
  /\ ~sOut.done
  /\ LET r == calculateScore(sMatching, sBlocking, sUncertain)
     IN sOut' = [done |-> TRUE, score |-> r.score, category |-> r.category]
  /\ UNCHANGED <<sMatching, sBlocking, sUncertain, cScores, cCategories,
                 mProfile, mCriteria, mResult, pvars, rvars, xvars>>

NextScore == CalculateScore

SpecScore == InitScore /\ [][NextScore]_vars

\* ------------------------------------------------------------------------
\* The category thresholds applied to two scores
\* ------------------------------------------------------------------------
\* MatchResult.score: z.number().min(0).max(100)
ScoreMin == 0
ScoreMax == 100

InitCategory ==
  /\ PipelineIdle
  /\ RetryIdle
  /\ ScoreIdle
  /\ MatchIdle
  /\ ExtraIdle
  /\ cScores \in (ScoreMin..ScoreMax) \X (ScoreMin..ScoreMax)
  /\ cCategories = <<>>

\* each score is given its category
Categorize ==
  /\ cCategories = <<>>
  /\ cCategories' = <<categoryOf(cScores[1]), categoryOf(cScores[2])>>
  /\ UNCHANGED <<cScores, sMatching, sBlocking, sUncertain, sOut,
                 mProfile, mCriteria, mResult, pvars, rvars, xvars>>

NextCategory == Categorize

SpecCategory == InitCategory /\ [][NextCategory]_vars

\* ------------------------------------------------------------------------
\* One call of matchWithRules
\* ------------------------------------------------------------------------
Criterion(text, category) == [criterion |-> text, category |-> category]

InclusionPool ==
  {Criterion(TxtConfirmedNSCLC, "diagnosis"), Criterion(TxtEGFRMutation, "biomarker"),
   Criterion(TxtECOG01, "other"), Criterion(TxtECOGPerformanceStatus01, "other"),
   Criterion(TxtPriorSurgery, "treatment")}

ExclusionPool ==
  {Criterion(TxtPriorSurgery, "treatment"), Criterion(TxtPriorHormoneTherapy, "treatment"),
   Criterion(TxtEGFRMutation, "biomarker"), Criterion(TxtPDL1Negative, "biomarker"),
   Criterion(TxtActiveInfection, "other")}

Profiles ==
  [diagnosis : {TxtNSCLC},
   biomarkers : {<<>>, <<TxtEGFR>>, <<TxtPDL1>>},
   ecogScore : {1, 3},
   previousTreatments : {<<>>, <<TxtSurgery>>, <<TxtHormoneTherapy>>}]

InitMatch ==
  /\ PipelineIdle
  /\ RetryIdle
  /\ ScoreIdle
  /\ CategoryIdle
  /\ ExtraIdle
  /\ mProfile \in Profiles
  /\ mCriteria \in [inclusionCriteria : SeqsUpTo(InclusionPool, MaxInclusion),
                     exclusionCriteria : SeqsUpTo(ExclusionPool, MaxExclusion)]
  /\ mResult = NoResult

\* matchWithRules(profile, criteria, nctId) returns
MatchWithRules ==
  /\ ~mResult.done
  /\ mResult' = matchWithRules(mProfile, mCriteria, NctId(1))
  /\ UNCHANGED <<mProfile, mCriteria, sMatching, sBlocking, sUncertain, sOut,
                 cScores, cCategories, pvars, rvars, xvars>>

NextMatch == MatchWithRules

SpecMatch == InitMatch /\ [][NextMatch]_vars

\* ------------------------------------------------------------------------
\* Several calls of runMatcherAgent, interleaved at their awaits
\* ------------------------------------------------------------------------
\* const USE_RULES_ONLY = true
USE_RULES_ONLY_off == FALSE

USE_RULES_ONLY == TRUE

\* what runAgent('clinical-matcher') can come back with: no usable output,
\* or an output
LLMAnswers ==
  {[success |-> FALSE, output |-> NoResult],
   [success |-> TRUE,
    output |-> [NoResult EXCEPT !.done = TRUE, !.score = 40, !.category = "future_potential"]]}

\* runMatcherAgent after its delay: the LLM result when the LLM is used and
\* answers, the rule-based result otherwise
runMatcherAgent(input, llm) ==
  IF ~USE_RULES_ONLY /\ llm.success
    THEN [llm.output EXCEPT !.nctId = input.nctId]
    ELSE matchWithRules(input.patientProfile, input.eligibilityCriteria, input.nctId)

EvalProfile(biomarkers) ==
  [diagnosis |-> TxtNSCLC, biomarkers |-> biomarkers, ecogScore |-> 1,
   previousTreatments |-> <<TxtSurgery>>]

EvalCriteria(inclusion, exclusion) ==
  [inclusionCriteria |-> inclusion, exclusionCriteria |-> exclusion]

\* the (profile, criteria) pairs the calls are made with
EvalInputs ==
  {[patientProfile |-> EvalProfile(<<TxtEGFR>>), eligibilityCriteria |-> c] :
     c \in {EvalCriteria(<<>>, <<>>),
            EvalCriteria(<<Criterion(TxtConfirmedNSCLC, "diagnosis"),
                           Criterion(TxtEGFRMutation, "biomarker")>>, <<>>),
            EvalCriteria(<<Criterion(TxtConfirmedNSCLC, "diagnosis"),
                           Criterion(TxtEGFRMutation, "biomarker"),
                           Criterion(TxtEGFR, "biomarker"),
                           Criterion(TxtPriorSurgery, "treatment")>>, <<>>),
            EvalCriteria(<<Criterion(TxtConfirmedNSCLC, "diagnosis")>>,
                         <<Criterion(TxtPriorSurgery, "treatment")>>)}}
  \cup {[patientProfile |-> EvalProfile(<<TxtPDL1>>),
          eligibilityCriteria |->
            EvalCriteria(<<Criterion(TxtConfirmedNSCLC, "diagnosis"),
                           Criterion(TxtEGFRMutation, "biomarker")>>, <<>>)]}

InitEval ==
  /\ PipelineIdle
  /\ RetryIdle
  /\ ScoreIdle
  /\ CategoryIdle
  /\ MatchIdle
  /\ ProgressIdle
  /\ CacheIdle
  /\ LateIdle
  /\ \E ins \in [1..NumEvals -> EvalInputs] :
       jobs = [k \in 1..NumEvals |->
                 [input |-> [patientProfile |-> ins[k].patientProfile,
                             eligibilityCriteria |-> ins[k].eligibilityCriteria,
                             nctId |-> NctId(k)],
                  phase |-> "idle", result |-> NoResult]]

\* runMatcherAgent(input) is called: it runs up to the await of its delay
EvalCalled ==
  \E k \in DOMAIN jobs :
    /\ jobs[k].phase = "idle"
    /\ jobs' = [jobs EXCEPT ![k].phase = "waiting"]
    /\ UNCHANGED <<sMatching, sBlocking, sUncertain, sOut, cScores, cCategories,
                   mProfile, mCriteria, mResult, pvars, rvars, progressVars,
                   cacheVars, yvars>>

\* the delay of call k is over: the rest of runMatcherAgent runs and the
\* call resolves
EvalResolves ==
  \E k \in DOMAIN jobs, llm \in LLMAnswers :
    /\ jobs[k].phase = "waiting"
    /\ jobs' = [jobs EXCEPT ![k].phase = "done",
                            ![k].result = runMatcherAgent(jobs[k].input, llm)]
    /\ UNCHANGED <<sMatching, sBlocking, sUncertain, sOut, cScores, cCategories,
                   mProfile, mCriteria, mResult, pvars, rvars, progressVars,
                   cacheVars, yvars>>

NextEval ==
  \/ EvalCalled
  \/ EvalResolves

SpecEval == InitEval /\ [][NextEval]_vars

\* ------------------------------------------------------------------------
\* calculateOverallProgress (lib/orchestrator.ts)
\* ------------------------------------------------------------------------
\* const weights = { scout: 15, extractor: 35, matcher: 35, advocate: 15 }
ProgressWeights == [scout |-> 15, extractor |-> 35, matcher |-> 35, advocate |-> 15]

\* what one step adds to totalProgress, in hundredths
stepProgress(step) ==
  IF step.status = "complete" THEN ProgressWeights[step.id] * 100
  ELSE IF step.status = "running" /\ step.progress /= NoProgress
    THEN ProgressWeights[step.id] * step.progress
  ELSE 0

\* totalProgress after the loop over steps, in hundredths
RECURSIVE totalProgress(_)
totalProgress(steps) ==
  IF steps = <<>> THEN 0
  ELSE totalProgress(SubSeq(steps, 1, Len(steps) - 1)) + stepProgress(steps[Len(steps)])

calculateOverallProgress(steps) == RoundDiv(totalProgress(steps), 100)

\* the values of step.status and of step.progress the call is made with
StepStatuses == {"pending", "running", "complete", "error"}

StepProgresses == {NoProgress, 10, 97, 100}

\* a list holding each stage once, in stage order
StepLists ==
  {[k \in 1..Len(PIPELINE_STEPS) |->
      createStep(PIPELINE_STEPS[k], st[k], pr[k], NoError)] :
     st \in [1..Len(PIPELINE_STEPS) -> StepStatuses],
     pr \in [1..Len(PIPELINE_STEPS) -> StepProgresses]}

InitProgress ==
  /\ PipelineIdle
  /\ RetryIdle
  /\ ScoreIdle
  /\ CategoryIdle
  /\ MatchIdle
  /\ EvalIdle
  /\ CacheIdle
  /\ LateIdle
  /\ gSteps \in StepLists
  /\ gOut = NoNumber

\* calculateOverallProgress(steps) returns
CalculateOverallProgress ==
  /\ ~gOut.done
  /\ gOut' = [done |-> TRUE, value |-> calculateOverallProgress(gSteps)]
  /\ UNCHANGED <<gSteps, sMatching, sBlocking, sUncertain, sOut, cScores,
                 cCategories, mProfile, mCriteria, mResult, pvars, rvars,
                 evalVars, cacheVars, yvars>>

NextProgress == CalculateOverallProgress

SpecProgress == InitProgress /\ [][NextProgress]_vars

\* ------------------------------------------------------------------------
\* extractTrialData and the extraction cache (rtrvr client)
\* ------------------------------------------------------------------------
\* the pages a fetch can come back with (the remote content can change)
PageVersions == {1, 2}

\* transformRtrvrResponse(result.data, nctId)
transformRtrvrResponse(data, nctId) == [nctId |-> nctId, version |-> data]

NoExtraction == [nctId |-> 0, version |-> 0]

\* the variables shared by the steps of extractTrialData, as a record
CacheCur ==
  [extractionCache |-> extractionCache, xCalls |-> xCalls,
   cacheWrites |-> cacheWrites, cacheClears |-> cacheClears]

CacheSet(c) ==
  /\ extractionCache' = c.extractionCache
  /\ xCalls' = c.xCalls
  /\ cacheWrites' = c.cacheWrites
  /\ cacheClears' = c.cacheClears
  /\ UNCHANGED <<sMatching, sBlocking, sUncertain, sOut, cScores, cCategories,
                 mProfile, mCriteria, mResult, pvars, rvars, evalVars, progressVars,
                 yvars>>

extractTrialDataStart_alwaysFetch(c, k) == [c EXCEPT !.xCalls[k].phase = "fetching"]

\* extractTrialData up to its first await: the cache is read; a hit returns
\* the cached extraction, a miss sends the request
extractTrialDataStart(c, k) ==
  LET nctId == c.xCalls[k].nctId
  IN IF nctId \in DOMAIN c.extractionCache
       THEN [c EXCEPT !.xCalls[k].phase = "fulfilled",
                      !.xCalls[k].value = c.extractionCache[nctId],
                      !.xCalls[k].hit = TRUE]
       ELSE [c EXCEPT !.xCalls[k].phase = "fetching"]

\* extractTrialData from the response on: transform, cache, return
extractTrialDataStore(c, k, data) ==
  LET nctId == c.xCalls[k].nctId
      extraction == transformRtrvrResponse(data, nctId)
  IN [c EXCEPT !.extractionCache = MapSet(@, nctId, extraction),
               !.cacheWrites = Append(@, nctId),
               !.xCalls[k].phase = "fulfilled",
               !.xCalls[k].value = extraction]

InitCache ==
  /\ PipelineIdle
  /\ RetryIdle
  /\ ScoreIdle
  /\ CategoryIdle
  /\ MatchIdle
  /\ EvalIdle
  /\ ProgressIdle
  /\ LateIdle
  /\ extractionCache = <<>>
  /\ xCalls \in [1..NumExtractCalls ->
                    [nctId : {NctId(1), NctId(2)}, phase : {"idle"},
                     value : {NoExtraction}, hit : {FALSE}]]
  /\ cacheWrites = <<>>
  /\ cacheClears = 0

\* extractTrialData(client, nctId) is called
ExtractCalled ==
  \E k \in DOMAIN xCalls :
    /\ xCalls[k].phase = "idle"
    /\ CacheSet(extractTrialDataStart(CacheCur, k))

\* the request of call k is answered with usable data
FetchReturns ==
  \E k \in DOMAIN xCalls, data \in PageVersions :
    /\ xCalls[k].phase = "fetching"
    /\ CacheSet(extractTrialDataStore(CacheCur, k, data))

\* the request of call k fails (status not ok, no data, timeout): the error
\* is thrown, the cache is left alone
FetchFails ==
  \E k \in DOMAIN xCalls :
    /\ xCalls[k].phase = "fetching"
    /\ CacheSet([CacheCur EXCEPT !.xCalls[k].phase = "rejected"])

\* clearExtractionCache()
ClearExtractionCache ==
  /\ cacheClears < MaxClears
  /\ CacheSet([CacheCur EXCEPT !.extractionCache = <<>>, !.cacheClears = @ + 1])

NextCache ==
  \/ ExtractCalled
  \/ FetchReturns
  \/ FetchFails
  \/ ClearExtractionCache

SpecCache == InitCache /\ [][NextCache]_vars

\* ------------------------------------------------------------------------
\* extractMultipleTrials (rtrvr client): workers sharing one queue
\* ------------------------------------------------------------------------
BatchCur ==
  [extractionCache |-> extractionCache, xCalls |-> xCalls,
   cacheWrites |-> cacheWrites, cacheClears |-> cacheClears,
   bNctIds |-> bNctIds, bConcurrency |-> bConcurrency, queue |-> queue,
   workers |-> workers, results |-> results, taken |-> taken,
   bReturned |-> bReturned, bPhase |-> bPhase]

BatchSet(b) ==
  /\ extractionCache' = b.extractionCache
  /\ xCalls' = b.xCalls
  /\ cacheWrites' = b.cacheWrites
  /\ cacheClears' = b.cacheClears
  /\ bNctIds' = b.bNctIds
  /\ bConcurrency' = b.bConcurrency
  /\ queue' = b.queue
  /\ workers' = b.workers
  /\ results' = b.results
  /\ taken' = b.taken
  /\ bReturned' = b.bReturned
  /\ bPhase' = b.bPhase
  /\ UNCHANGED <<sMatching, sBlocking, sUncertain, sOut, cScores, cCategories,
                 mProfile, mCriteria, mResult, pvars, rvars, evalVars, progressVars,
                 tierVars, agentVars>>

\* processNext from the test of its while loop up to the await: the worker
\* ends on an empty queue, else it shifts the queue and calls
\* extractTrialData, which runs up to its own first await
processNext(b, w) ==
  IF b.queue = <<>>
    THEN [b EXCEPT !.workers[w] = [phase |-> "done", call |-> 0]]
    ELSE LET nctId == Head(b.queue)
             b1 == [b EXCEPT !.queue = Tail(@),
                             !.taken = Append(@, [worker |-> w, nctId |-> nctId]),
                             !.xCalls = Append(@, [nctId |-> nctId, phase |-> "idle",
                                                   value |-> NoExtraction, hit |-> FALSE])]
             k == Len(b1.xCalls)
         IN [extractTrialDataStart(b1, k) EXCEPT
               !.workers[w] = [phase |-> "awaiting", call |-> k]]

\* processNext after the await: results.set with the extraction or, in the
\* catch block, with the Error; then the loop goes round
processNextResume(b, w) ==
  LET c == b.xCalls[b.workers[w].call]
      entry == IF c.phase = "fulfilled"
                 THEN [error |-> FALSE, value |-> c.value]
                 ELSE [error |-> TRUE, value |-> NoExtraction]
  IN processNext([b EXCEPT !.results = MapSet(@, c.nctId, entry)], w)

\* Array(count).fill(null).map(() => processNext()), from worker w on
RECURSIVE startWorkers(_, _, _)
startWorkers(b, w, count) ==
  IF w > count THEN b
  ELSE startWorkers(processNext(b, w), w + 1, count)

\* extractMultipleTrials up to await Promise.all(workers)
extractMultipleTrials(b) ==
  LET count == Min(b.bConcurrency, Len(b.bNctIds))
      b1 == [b EXCEPT !.queue = b.bNctIds,
                      !.workers = [w \in 1..count |-> [phase |-> "new", call |-> 0]],
                      !.bPhase = "running"]
  IN startWorkers(b1, 1, count)

\* lists of distinct identifiers
BatchInputs ==
  {s \in SeqsUpTo({NctId(k) : k \in 1..MaxBatchIds}, MaxBatchIds) :
     \A m, n \in 1..Len(s) : m /= n => s[m] /= s[n]}

InitBatch ==
  /\ PipelineIdle
  /\ RetryIdle
  /\ ScoreIdle
  /\ CategoryIdle
  /\ MatchIdle
  /\ EvalIdle
  /\ ProgressIdle
  /\ extractionCache \in {<<>>, MapSet(<<>>, NctId(1), transformRtrvrResponse(1, NctId(1)))}
  /\ xCalls = <<>>
  /\ cacheWrites = <<>>
  /\ cacheClears = 0
  /\ bNctIds \in BatchInputs
  /\ bConcurrency \in 0..MaxWorkers
  /\ queue = <<>>
  /\ workers = <<>>
  /\ results = <<>>
  /\ taken = <<>>
  /\ bReturned = NoMap
  /\ bPhase = "idle"
  /\ TierIdle
  /\ AgentIdle

\* extractMultipleTrials(client, nctIds, concurrency) is called
ExtractMultipleTrials ==
  /\ bPhase = "idle"
  /\ BatchSet(extractMultipleTrials(BatchCur))

\* the extractTrialData call a worker awaits has settled: the worker goes on
WorkerResumes ==
  \E w \in DOMAIN workers :
    /\ workers[w].phase = "awaiting"
    /\ xCalls[workers[w].call].phase \in {"fulfilled", "rejected"}
    /\ BatchSet(processNextResume(BatchCur, w))

\* Promise.all(workers) resolves: the map is returned
BatchReturns ==
  /\ bPhase = "running"
  /\ \A w \in DOMAIN workers : workers[w].phase = "done"
  /\ BatchSet([BatchCur EXCEPT !.bReturned = [done |-> TRUE, map |-> results],
                               !.bPhase = "returned"])

NextBatch ==
  \/ ExtractMultipleTrials
  \/ FetchReturns
  \/ FetchFails
  \/ WorkerResumes
  \/ BatchReturns

SpecBatch == InitBatch /\ [][NextBatch]_vars

\* ------------------------------------------------------------------------
\* Free-tier management (lib/stripe.ts): a count kept as text in
\* sessionStorage
\* ------------------------------------------------------------------------
\* PRODUCT_TIERS.free.matches
FreeMatches == 5

TxtMinusOne == <<"-", "1">>

\* String(n) for an integer n
RECURSIVE numberToString(_)
numberToString(n) ==
  IF n < 0 THEN <<"-">> \o numberToString(0 - n)
  ELSE IF n < 10 THEN <<DigitChars[n + 1]>>
  ELSE numberToString(n \div 10) \o <<DigitChars[(n % 10) + 1]>>

\* the value of the leading digits of s, most significant first
RECURSIVE digitsValue(_, _)
digitsValue(s, acc) ==
  IF s = <<>> \/ ~isDigit(Head(s)) THEN acc
  ELSE digitsValue(Tail(s), 10 * acc + digitValue(Head(s)))

\* parseInt(s, 10) of a text that starts with a digit or with '-' and a digit
parseInt(s) ==
  IF Head(s) = "-" THEN 0 - digitsValue(Tail(s), 0) ELSE digitsValue(s, 0)

getRemainingFreeMatches(item) ==
  IF ~item.present THEN FreeMatches ELSE parseInt(item.text)

setItem(text) == [present |-> TRUE, text |-> text]

\* decrementFreeMatches: the count returned and the item stored
decrementFreeMatches(item) ==
  LET remaining == getRemainingFreeMatches(item)
      newCount == Max(0, remaining - 1)
  IN [value |-> newCount, item |-> setItem(numberToString(newCount))]

hasFreeMatchesRemaining(item) == getRemainingFreeMatches(item) > 0

grantUnlimitedMatches(item) == setItem(TxtMinusOne)

hasUnlimitedMatches(item) == getRemainingFreeMatches(item) = 0 - 1

\* what the 'payment' parameter of the URL can be
PaymentParams == {"success", "cancelled"}

InitTier ==
  /\ PipelineIdle
  /\ RetryIdle
  /\ ScoreIdle
  /\ CategoryIdle
  /\ MatchIdle
  /\ EvalIdle
  /\ ProgressIdle
  /\ CacheIdle
  /\ BatchIdle
  /\ AgentIdle
  /\ stored = NoItem
  /\ urlPayment \in PaymentParams \cup {"none"}
  /\ tLast = NoTierCall
  /\ tCalls = 0
  /\ tGranted = FALSE

\* one more call is made; everything outside the session is left alone
TierCall(fn, value) ==
  /\ tCalls < MaxTierCalls
  /\ tCalls' = tCalls + 1
  /\ tLast' = [fn |-> fn, value |-> value]
  /\ UNCHANGED <<sMatching, sBlocking, sUncertain, sOut, cScores, cCategories,
                 mProfile, mCriteria, mResult, pvars, rvars, evalVars, progressVars,
                 cacheVars, batchVars, agentVars>>

GetRemainingFreeMatches ==
  /\ TierCall("getRemainingFreeMatches", getRemainingFreeMatches(stored))
  /\ UNCHANGED <<stored, urlPayment, tGranted>>

DecrementFreeMatches ==
  /\ TierCall("decrementFreeMatches", decrementFreeMatches(stored).value)
  /\ stored' = decrementFreeMatches(stored).item
  /\ UNCHANGED <<urlPayment, tGranted>>

HasFreeMatchesRemaining ==
  /\ TierCall("hasFreeMatchesRemaining", hasFreeMatchesRemaining(stored))
  /\ UNCHANGED <<stored, urlPayment, tGranted>>

\* resetFreeMatches: sessionStorage.removeItem
ResetFreeMatches ==
  /\ TierCall("resetFreeMatches", 0)
  /\ stored' = NoItem
  /\ tGranted' = FALSE
  /\ UNCHANGED urlPayment

GrantUnlimitedMatches ==
  /\ TierCall("grantUnlimitedMatches", 0)
  /\ stored' = grantUnlimitedMatches(stored)
  /\ tGranted' = TRUE
  /\ UNCHANGED urlPayment

HasUnlimitedMatches ==
  /\ TierCall("hasUnlimitedMatches", hasUnlimitedMatches(stored))
  /\ UNCHANGED <<stored, urlPayment, tGranted>>

\* handlePaymentRedirect: grant on 'success', then drop the parameter
HandlePaymentRedirect ==
  /\ TierCall("handlePaymentRedirect",
              [success |-> urlPayment = "success", cancelled |-> urlPayment = "cancelled"])
  /\ stored' = IF urlPayment = "success" THEN grantUnlimitedMatches(stored) ELSE stored
  /\ tGranted' = (tGranted \/ urlPayment = "success")
  /\ urlPayment' = "none"

NextTier ==
  \/ GetRemainingFreeMatches
  \/ DecrementFreeMatches
  \/ HasFreeMatchesRemaining
  \/ ResetFreeMatches
  \/ GrantUnlimitedMatches
  \/ HasUnlimitedMatches
  \/ HandlePaymentRedirect

SpecTier == InitTier /\ [][NextTier]_vars

\* ------------------------------------------------------------------------
\* runAgent (Toolhouse client)
\* ------------------------------------------------------------------------
\* the keys of AGENT_SYSTEM_PROMPTS
AGENT_SYSTEM_PROMPTS ==
  {"clinical-trial-scout", "eligibility-extractor", "clinical-matcher", "patient-advocate"}

\* names every object literal inherits from Object.prototype
InheritedNames == {"constructor", "toString"}

\* const systemPrompt = AGENT_SYSTEM_PROMPTS[agentId]; the test
\* !systemPrompt is on what the property lookup gives: the prompt for a
\* key, the inherited member for an inherited name, undefined otherwise
systemPromptFound(agentId) == agentId \in AGENT_SYSTEM_PROMPTS \cup InheritedNames

\* null as T
NullOutput == 0

\* what an attempt can return (the parsed answer)
AgentOutputs == {1, 2}

AgentIds == {"clinical-trial-scout", "patient-advocate", "no-such-agent", "constructor"}

\* the return of the unknown-agent branch
unknownAgentResult ==
  [done |-> TRUE, success |-> FALSE, output |-> NullOutput, error |-> "Unknown agent"]

\* the two returns after withRetry settled; String(undefined) when
\* withRetry threw without an error
runAgentReturn(r) ==
  IF r.phase = "fulfilled"
    THEN [done |-> TRUE, success |-> TRUE, output |-> r.value, error |-> "none"]
    ELSE [done |-> TRUE, success |-> FALSE, output |-> NullOutput,
          error |-> IF r.lastError = "none" THEN "undefined" ELSE r.lastError]

InitAgent ==
  /\ PipelineIdle
  /\ ScoreIdle
  /\ CategoryIdle
  /\ MatchIdle
  /\ EvalIdle
  /\ ProgressIdle
  /\ CacheIdle
  /\ BatchIdle
  /\ TierIdle
  /\ rImpl = "toolhouse"
  /\ rMaxRetries \in 0..MaxRetriesOpt
  /\ rBaseDelay \in BaseDelays
  /\ rCall = NoCall
  /\ rHistory = <<>>
  /\ rWaits = <<>>
  /\ aAgentId \in AgentIds
  /\ aResult = NoAgentResult
  /\ aReturned = <<>>

AgentFrame ==
  UNCHANGED <<sMatching, sBlocking, sUncertain, sOut, cScores, cCategories,
              mProfile, mCriteria, mResult, pvars, evalVars, progressVars,
              cacheVars, batchVars, tierVars, rImpl, rMaxRetries, rBaseDelay, rWaits,
              aAgentId>>

\* runAgent(client, agentId, input, options) is called: it returns at once
\* for an agent without a prompt, else it enters withRetry
RunAgent ==
  /\ ~aResult.done
  /\ rCall.phase = "idle"
  /\ IF systemPromptFound(aAgentId)
       THEN rCall' = thWithRetryStart(rMaxRetries) /\ aResult' = aResult
       ELSE rCall' = rCall /\ aResult' = unknownAgentResult
  /\ UNCHANGED <<rHistory, aReturned>>
  /\ AgentFrame

\* messages.create answered and the answer was parsed
AgentAttemptReturns ==
  \E v \in AgentOutputs :
    /\ rCall.phase = "call"
    /\ rCall' = withRetryReturn(rCall, v)
    /\ rHistory' = Append(rHistory, "ok")
    /\ aReturned' = Append(aReturned, v)
    /\ UNCHANGED aResult
    /\ AgentFrame

\* withRetry has settled: runAgent returns its AgentResult
RunAgentReturns ==
  /\ ~aResult.done
  /\ rCall.phase \in {"fulfilled", "rejected"}
  /\ aResult' = runAgentReturn(rCall)
  /\ UNCHANGED <<rCall, rHistory, aReturned>>
  /\ AgentFrame

NextAgent ==
  \/ RunAgent
  \/ AgentAttemptReturns
  \/ RetryAttemptThrows
  \/ RetrySleepDone
  \/ RunAgentReturns

SpecAgent == InitAgent /\ [][NextAgent]_vars

\* ========================================================================
\* Properties
\* ========================================================================
StageIndex(id) == CHOOSE n \in 1..Len(PIPELINE_STEPS) : PIPELINE_STEPS[n] = id

\* status of stage id as an observer of the first n onProgress calls sees it
ObservedStatus(id, n) ==
  LET evs == {e \in 1..n : emitted[e].step.id = id}
  IN IF evs = {} THEN "pending"
     ELSE emitted[CHOOSE e \in evs : \A f \in evs : f <= e].step.status

MarkedComplete(steps, id) ==
  \E n \in 1..Len(steps) : steps[n].id = id /\ steps[n].status = "complete"

CalledAdapters == {c.adapter : c \in adapterCalls}

InFlight == Cardinality({k \in DOMAIN ops : ops[k].phase \in {"call", "sleep"}})

CeilDiv(a, b) == (a + b - 1) \div b

LogNames(msg, id) == \E n \in 1..Len(logs) : logs[n].msg = msg /\ logs[n].id = id

Count(seq, x) == Cardinality({n \in 1..Len(seq) : seq[n] = x})

\* C1: the stages are driven in the order scout, extractor, matcher,
\* advocate: a 'running' event of a stage is preceded, in the sequence of
\* onProgress calls, by the 'complete' event of the stage before it; an
\* adapter of a stage is only called once the stage before it is in
\* completedSteps as complete; and no observer ever sees two stages running.
C1_StageOrder ==
  /\ \A e \in 1..Len(emitted) :
       (emitted[e].step.status = "running" /\ StageIndex(emitted[e].step.id) > 1)
         => \E f \in 1..(e - 1) :
              /\ emitted[f].step.status = "complete"
              /\ StageIndex(emitted[f].step.id) = StageIndex(emitted[e].step.id) - 1
  /\ \A a \in CalledAdapters :
       StageIndex(a) > 1 => MarkedComplete(completedSteps, PIPELINE_STEPS[StageIndex(a) - 1])
  /\ \A n \in 0..Len(emitted) :
       Cardinality({id \in {"scout", "extractor", "matcher", "advocate"} :
                      ObservedStatus(id, n) = "running"}) <= 1
  /\ (pc = "extract" => ~MarkedComplete(completedSteps, "extractor"))
  /\ (pc = "match" => ~MarkedComplete(completedSteps, "matcher"))

C1_Witness ==
  /\ pc = "returned"
  /\ CalledAdapters = {"scout", "extractor", "matcher", "advocate"}
  /\ Len(emitted) >= 8

\* C2: in a chunk loop with concurrency limit C at most C operations are in
\* flight, and the operation of the item at 0-based position p was started
\* when exactly ceil((p+1)/C) - 1 chunks had fully settled.
C2_BoundedChunks ==
  /\ InFlight <= concurrency
  /\ \A o \in opStarts : o.settled = CeilDiv(o.pos + 1, concurrency) - 1
  /\ \A o1 \in opStarts : \A o2 \in opStarts :
       (o1.stage = o2.stage /\ o1.pos = o2.pos) => o1 = o2

C2_Witness ==
  /\ pc = "match"
  /\ concurrency = 2
  /\ InFlight = 1
  /\ \E o \in opStarts : o.stage = "matcher" /\ o.pos = 2 /\ o.settled = 1
  /\ \E o \in opStarts : o.stage = "extractor" /\ o.pos = 2 /\ o.settled = 1

\* C3: once a chunk loop has run to its end, every input item has exactly
\* one record: extraction leaves each trial either in eligibilityMap or
\* exactly once in extractionErrors with a log line naming it; matching
\* leaves each trial with criteria either exactly one entry of matchResults
\* or exactly one entry of matchErrors with a log line naming it. Every item
\* was run, whatever happened to the others.
ExtractionEnded == MarkedComplete(completedSteps, "extractor")

MatchingEnded == MarkedComplete(completedSteps, "matcher")

MatchedIds == [n \in 1..Len(matchResults) |-> matchResults[n].nctId]

C3_OneRecordPerItem ==
  /\ ExtractionEnded =>
       /\ \A n \in 1..Len(trials) :
            LET id == trials[n]
            IN /\ [adapter |-> "extractor", nctId |-> id, criteria |-> 0] \in adapterCalls
               /\ (id \in DOMAIN eligibilityMap) /= (Count(extractionErrors, id) >= 1)
               /\ Count(extractionErrors, id) <= 1
               /\ Count(extractionErrors, id) = 1
                    => LogNames("Failed to extract criteria for", id)
       /\ Cardinality(DOMAIN eligibilityMap) + Len(extractionErrors) = Len(trials)
  /\ MatchingEnded =>
       /\ \A n \in 1..Len(trialsWithCriteria) :
            LET id == trialsWithCriteria[n]
            IN /\ \E c \in adapterCalls : c.adapter = "matcher" /\ c.nctId = id
               /\ (Count(MatchedIds, id) >= 1) /= (Count(matchErrors, id) >= 1)
               /\ Count(MatchedIds, id) <= 1
               /\ Count(matchErrors, id) <= 1
               /\ Count(matchErrors, id) = 1 => LogNames("Failed to match", id)
       /\ Len(matchResults) + Len(matchErrors) = Len(trialsWithCriteria)

C3_Witness ==
  /\ pc = "returned"
  /\ MatchingEnded
  /\ Len(extractionErrors) = 1
  /\ Len(matchErrors) = 1
  /\ Len(matchResults) = 1

\* C4: a withRetry invocation attempts the operation at most maxAttempts
\* times (the number of iterations its loop allows), and reaches maxAttempts
\* only if every attempt before the last one raised a retryable (rate-limit
\* or timeout) error.
MaxAttempts == IF rImpl = "coordinator" THEN rMaxRetries + 1 ELSE rMaxRetries

C4_AttemptsBounded ==
  /\ Len(rHistory) <= MaxAttempts
  /\ (Len(rHistory) = MaxAttempts)
       => \A n \in 1..(Len(rHistory) - 1) : isRetryable(rHistory[n])

\* C5: an attempt that fails with a fatal error is the last attempt, is
\* followed by no backoff wait and is the error propagated; when withRetry
\* rejects after at least one attempt, it rejects with the error of the last
\* attempt.
IsFatal(outcome) == outcome /= "ok" /\ ~isRetryable(outcome)

C5_FatalStopsRetry ==
  /\ \A n \in 1..Len(rHistory) :
       IsFatal(rHistory[n]) =>
         /\ n = Len(rHistory)
         /\ Len(rWaits) = n - 1
         /\ rCall.phase = "rejected"
         /\ rCall.lastError = rHistory[n]
  /\ (rCall.phase = "rejected" /\ Len(rHistory) >= 1)
       => rCall.lastError = rHistory[Len(rHistory)]

\* C6 (as stated): in a returned result every outcome's identifier is in the
\* returned trials, and no trial whose extraction failed is in the returned
\* trials, in a matcher call or in the outcomes.
ResultOutcomeIds == {result.matchResults[n].nctId : n \in 1..Len(result.matchResults)}

MatcherCallIds == {c.nctId : c \in {d \in adapterCalls : d.adapter = "matcher"}}

C6_NoFailedCandidateAnywhere ==
  pc = "returned" =>
    /\ ResultOutcomeIds \subseteq SeqToSet(result.trials)
    /\ \A id \in SeqToSet(extractionErrors) :
         /\ id \notin SeqToSet(result.trials)
         /\ id \notin MatcherCallIds
         /\ id \notin ResultOutcomeIds

\* C6 (amended): in a returned result every outcome's identifier is in the
\* returned trials; a trial whose extraction failed is never passed to the
\* matcher and never in the outcomes; it is absent from the returned trials
\* unless no trial at all has criteria, in which case the returned trials
\* are the truncated discovery list.
C6_FailedCandidatesExcluded ==
  /\ \A c \in adapterCalls :
       c.adapter = "matcher" =>
         /\ c.nctId \notin SeqToSet(extractionErrors)
         /\ c.nctId \in DOMAIN eligibilityMap
         /\ c.criteria = eligibilityMap[c.nctId]
  /\ pc = "returned" =>
       /\ ResultOutcomeIds \subseteq SeqToSet(result.trials)
       /\ SeqToSet(extractionErrors) \cap ResultOutcomeIds = {}
       /\ IF DOMAIN eligibilityMap /= {}
            THEN SeqToSet(extractionErrors) \cap SeqToSet(result.trials) = {}
            ELSE result.trials = trials

C6_Witness ==
  /\ pc = "returned"
  /\ Len(extractionErrors) >= 1
  /\ Len(result.matchResults) >= 1
  /\ Len(result.trials) >= 2

\* C7: when the scout finds no trial, runPipeline returns (does not throw)
\* empty trials, empty outcomes, no voiceScript and the four steps complete,
\* and no adapter other than the scout is called.
AllFourComplete(steps) ==
  /\ Len(steps) = Len(PIPELINE_STEPS)
  /\ \A n \in 1..Len(steps) :
       steps[n].id = PIPELINE_STEPS[n] /\ steps[n].status = "complete"

C7_ZeroCandidates ==
  (scoutResult.done /\ Len(scoutResult.trials) = 0) =>
    /\ pc = "returned"
    /\ thrown = "none"
    /\ result.trials = <<>>
    /\ result.matchResults = <<>>
    /\ result.voiceScript = "undefined"
    /\ AllFourComplete(result.completedSteps)
    /\ CalledAdapters = {"scout"}

C7_Witness ==
  /\ scoutResult.done
  /\ Len(scoutResult.trials) = 0
  /\ pc = "returned"

\* C8: extraction runs over exactly the first min(maxTrials, discovered)
\* trials in discovery order; when n trials were processed and k of them
\* failed extraction, 0 < k < n, the returned trials have n - k entries, the
\* outcomes at most n - k, and the log names every failed identifier.
ExtractorCallIds == {c.nctId : c \in {d \in adapterCalls : d.adapter = "extractor"}}

C8_TopCandidatesPartialFailure ==
  /\ (scoutResult.done /\ Len(scoutResult.trials) > 0) =>
       /\ trials = SubSeq(scoutResult.trials, 1, Min(maxTrials, Len(scoutResult.trials)))
       /\ ExtractorCallIds \subseteq SeqToSet(trials)
  /\ ExtractionEnded => ExtractorCallIds = SeqToSet(trials)
  /\ (pc = "returned" /\ 0 < Len(extractionErrors) /\ Len(extractionErrors) < Len(trials)) =>
       /\ Len(result.trials) = Len(trials) - Len(extractionErrors)
       /\ Len(result.matchResults) <= Len(trials) - Len(extractionErrors)
       /\ \A id \in SeqToSet(extractionErrors) :
            LogNames("Failed to extract criteria for", id)

C8_Witness ==
  /\ pc = "returned"
  /\ Len(scoutResult.trials) = 3
  /\ maxTrials = 2
  /\ Len(extractionErrors) = 1
  /\ Len(result.trials) = 1

\* C9: when every trial fails extraction, runPipeline does not throw: it
\* returns the truncated discovery list as trials, no outcomes, no
\* voiceScript, and the matcher step in status error with a message; the
\* matcher and the advocate are never called.
C9_AllExtractionsFailed ==
  (ExtractionEnded /\ Len(trials) >= 1 /\ DOMAIN eligibilityMap = {}) =>
    /\ pc = "returned"
    /\ thrown = "none"
    /\ result.trials = trials
    /\ result.trials = SubSeq(scoutResult.trials, 1, Min(maxTrials, Len(scoutResult.trials)))
    /\ result.matchResults = <<>>
    /\ result.voiceScript = "undefined"
    /\ Len(result.completedSteps) = 3
    /\ MarkedComplete(result.completedSteps, "scout")
    /\ MarkedComplete(result.completedSteps, "extractor")
    /\ result.completedSteps[3].id = "matcher"
    /\ result.completedSteps[3].status = "error"
    /\ result.completedSteps[3].error /= NoError
    /\ CalledAdapters = {"scout", "extractor"}

C9_Witness ==
  /\ pc = "returned"
  /\ Len(trials) = 2
  /\ Len(extractionErrors) = 2

\* C10: when the advocate call rejects (retries included), runPipeline
\* still returns: the four steps are complete, none is in error, the
\* outcomes are all the successful matches in descending score order,
\* voiceScript is undefined, and the reason is in the log only.
C10_AdvocateFailureTolerated ==
  advocateSettled = "rejected" =>
    /\ pc = "returned"
    /\ thrown = "none"
    /\ AllFourComplete(result.completedSteps)
    /\ \A n \in 1..Len(result.completedSteps) : result.completedSteps[n].error = NoError
    /\ \A e \in 1..Len(emitted) :
         emitted[e].step.status /= "error" /\ emitted[e].step.error = NoError
    /\ result.voiceScript = "undefined"
    /\ Len(result.matchResults) = Len(trialsWithCriteria) - Len(matchErrors)
    /\ ResultOutcomeIds = SeqToSet(trialsWithCriteria) \ SeqToSet(matchErrors)
    /\ \A n \in 1..(Len(result.matchResults) - 1) :
         result.matchResults[n].score >= result.matchResults[n + 1].score
    /\ \E n \in 1..Len(logs) :
         logs[n].msg = "Voice summary failed" /\ logs[n].reason \in AdapterErrors

C10_Witness ==
  /\ advocateSettled = "rejected"
  /\ pc = "returned"
  /\ Len(result.matchResults) >= 2
  /\ result.matchResults[1].score > result.matchResults[2].score

\* ------------------------------------------------------------------------
\* Cancellation and Discovery failure
\* ------------------------------------------------------------------------
LaterStages == {"extractor", "matcher", "advocate"}

\* abortSignal fired once the scout step had been reported complete and
\* before anything of the extraction stage had been reported or started
AbortedAfterDiscovery ==
  /\ aborted
  /\ abortAt >= 1
  /\ emitted[abortAt].step = createStep("scout", "complete", NoProgress, NoError)

\* C11: when abortSignal fires after the scout step completed and before
\* the first extraction chunk, runPipeline rejects with the cancellation
\* error, runExtractorAgent is never called, and no step of extractor,
\* matcher or advocate is ever passed to onProgress or recorded: they stay
\* pending.
C11_CancelledBeforeExtraction ==
  AbortedAfterDiscovery =>
    /\ pc = "thrown"
    /\ thrown = CancelMessage
    /\ "extractor" \notin CalledAdapters
    /\ \A e \in 1..Len(emitted) : emitted[e].step.id \notin LaterStages
    /\ \A n \in 1..Len(completedSteps) : completedSteps[n].id \notin LaterStages

\* the error the Processing page shows once runPipeline has rejected: its
\* catch navigates away on the cancellation message and shows any other
ProcessingShownError ==
  IF pc = "thrown" /\ thrown /= CancelMessage THEN thrown ELSE "none"

\* C12: once checkAbort has thrown, no step is in status error (neither
\* recorded nor passed to onProgress), the page shows no error, and from
\* then on no step is recorded or reported any more.
C12_CancellationIsNotAnError ==
  /\ [](thrown = CancelMessage =>
         /\ \A n \in 1..Len(completedSteps) : completedSteps[n].status /= "error"
         /\ \A e \in 1..Len(emitted) : emitted[e].step.status /= "error"
         /\ ProcessingShownError = "none")
  /\ [][thrown = CancelMessage => UNCHANGED <<completedSteps, emitted>>]_vars

DiscoveryFailed == scoutResult.done /\ scoutResult.error /= "none"

\* C13: runPipeline rejects only on cancellation or when Discovery failed,
\* and a failed Discovery always makes it reject: it is never returned as a
\* run with no trials and four complete steps.
C13_DiscoveryFailureSurfaces ==
  /\ pc = "thrown" => (thrown = CancelMessage \/ DiscoveryFailed)
  /\ DiscoveryFailed => (pc = "thrown" /\ thrown = scoutResult.error)
  /\ (pc = "returned" /\ result.trials = <<>> /\ AllFourComplete(result.completedSteps))
       => ~DiscoveryFailed

\* ------------------------------------------------------------------------
\* Order of the outcomes
\* ------------------------------------------------------------------------
\* position of a trial in the list the scout returned
DiscoveryPos(id) ==
  CHOOSE n \in 1..Len(scoutResult.trials) : scoutResult.trials[n] = id

\* C14: in a returned result the outcomes are in non-increasing score
\* order, and two outcomes of equal score are in the order their trials had
\* in the scout's list, in whatever order the calls of a chunk settled.
C14_SortedStable ==
  pc = "returned" =>
    \A a \in 1..Len(result.matchResults) : \A b \in 1..Len(result.matchResults) :
      a < b =>
        /\ result.matchResults[a].score >= result.matchResults[b].score
        /\ result.matchResults[a].score = result.matchResults[b].score
             => DiscoveryPos(result.matchResults[a].nctId)
                  < DiscoveryPos(result.matchResults[b].nctId)

C14_Witness ==
  /\ pc = "returned"
  /\ Len(result.matchResults) = 3
  /\ result.matchResults[1].score = result.matchResults[2].score
  /\ result.matchResults[2].score > result.matchResults[3].score
  /\ DiscoveryPos(result.matchResults[3].nctId) = 1

\* ------------------------------------------------------------------------
\* Progress reporting
\* ------------------------------------------------------------------------
\* a step of this id and status was passed to onProgress
Delivered(step) ==
  \E e \in 1..Len(emitted) :
    emitted[e].step.id = step.id /\ emitted[e].step.status = step.status

RunningEvents(id) ==
  Cardinality({e \in 1..Len(emitted) :
                 emitted[e].step.id = id /\ emitted[e].step.status = "running"})

\* C15: onProgress is called at every status change of a step and after
\* every chunk of the extraction and matching loops, so that every step
\* recorded in completedSteps, every step of a returned result and the error
\* step recorded when runPipeline rejects has been passed to onProgress.
C15_EveryStateDelivered ==
  /\ pc = "extract" => RunningEvents("extractor") = chunksSettled + 1
  /\ pc = "match" => RunningEvents("matcher") = chunksSettled + 1
  /\ \A n \in 1..Len(completedSteps) : Delivered(completedSteps[n])
  /\ pc = "returned" =>
       \A n \in 1..Len(result.completedSteps) : Delivered(result.completedSteps[n])

\* pending < running < complete, error
Rank(status) ==
  CASE status = "pending" -> 0
    [] status = "running" -> 1
    [] OTHER -> 2

\* the steps of the run as the caller gets them: those of the result once
\* returned, completedSteps otherwise
RecordedSteps == IF pc = "returned" THEN result.completedSteps ELSE completedSteps

\* C16: the status of a step never goes back. In the sequence of onProgress
\* calls the rank of a step's status never decreases and a complete or
\* error status never changes; a step is recorded at most once, with the
\* complete or error status that was passed to onProgress if one was; and
\* once a step is recorded, no other status of it is passed to onProgress.
C16_StatusMonotonic ==
  /\ [](/\ \A e \in 1..Len(emitted) : \A f \in 1..Len(emitted) :
            (e < f /\ emitted[e].step.id = emitted[f].step.id) =>
              /\ Rank(emitted[e].step.status) <= Rank(emitted[f].step.status)
              /\ Rank(emitted[e].step.status) = 2
                   => emitted[f].step.status = emitted[e].step.status
        /\ \A m \in 1..Len(RecordedSteps) : \A n \in 1..Len(RecordedSteps) :
            (m /= n) => RecordedSteps[m].id /= RecordedSteps[n].id
        /\ \A m \in 1..Len(completedSteps) : \A n \in 1..Len(completedSteps) :
            (m /= n) => completedSteps[m].id /= completedSteps[n].id
        /\ \A n \in 1..Len(RecordedSteps) : \A e \in 1..Len(emitted) :
            (emitted[e].step.id = RecordedSteps[n].id /\ Rank(emitted[e].step.status) = 2)
              => emitted[e].step.status = RecordedSteps[n].status)
  /\ [][\A n \in 1..Len(completedSteps) :
          /\ Len(completedSteps') >= n
          /\ completedSteps'[n] = completedSteps[n]
          /\ \A e \in (Len(emitted) + 1)..Len(emitted') :
               emitted'[e].step.id = completedSteps[n].id
                 => emitted'[e].step.status = completedSteps[n].status]_vars

C16_Witness ==
  /\ pc = "thrown"
  /\ Len(completedSteps) = 3
  /\ completedSteps[3].id = "matcher"
  /\ completedSteps[3].status = "error"
  /\ ObservedStatus("matcher", Len(emitted)) = "running"
  /\ ObservedStatus("extractor", Len(emitted)) = "complete"

\* ------------------------------------------------------------------------
\* Scoring
\* ------------------------------------------------------------------------
\* C17: with n >= 1 blocking factors calculateScore returns the score
\* max(0, 20 - 10 n) and the category not_eligible, whatever the matching
\* and uncertain factors are.
C17_BlockedScore ==
  (sOut.done /\ Len(sBlocking) >= 1) =>
    /\ sOut.score = Max(0, 20 - 10 * Len(sBlocking))
    /\ sOut.category = "not_eligible"

C17_Witness ==
  /\ sOut.done
  /\ Len(sBlocking) = 3
  /\ sOut.score = 0
  /\ SumWeights(sMatching) >= 25
  /\ Len(sUncertain) >= 1

\* a biomarker or a previous treatment of the profile is written, whatever
\* the case of its letters, in the text of an exclusion criterion of the
\* same kind
ExclusionMatchesProfile ==
  \E k \in 1..Len(mCriteria.exclusionCriteria) :
    LET c == mCriteria.exclusionCriteria[k]
        items == IF c.category = "biomarker" THEN mProfile.biomarkers
                 ELSE IF c.category = "treatment" THEN mProfile.previousTreatments
                 ELSE <<>>
    IN \E n \in 1..Len(items) :
         includes(toLowerCase(c.criterion), toLowerCase(items[n]))

\* C18: when an exclusion criterion textually matches a biomarker or a
\* previous treatment of the profile, the outcome is not_eligible and has a
\* blocking factor, however many inclusion criteria match.
C18_MatchedExclusionBlocks ==
  (mResult.done /\ ExclusionMatchesProfile) =>
    /\ mResult.category = "not_eligible"
    /\ Len(mResult.blockingFactors) >= 1

\* the category of a score in a table of bands with the given lower bounds
BandOf(score, strong, possible, future) ==
  IF score >= strong THEN "strong_match"
  ELSE IF score >= possible THEN "possible_match"
  ELSE IF score >= future THEN "future_potential"
  ELSE "not_eligible"

CategoryRank(category) ==
  CASE category = "strong_match" -> 3
    [] category = "possible_match" -> 2
    [] category = "future_potential" -> 1
    [] category = "not_eligible" -> 0

C20_ReadmeBands ==
  cCategories /= <<>> =>
    \A k \in 1..2 : cCategories[k] = BandOf(cScores[k], 85, 60, 30)

\* r is num / den rounded to the nearest integer, halves up (num >= 0, den > 0)
IsRounded(r, num, den) == den * (2 * r - 1) <= 2 * num /\ 2 * num < den * (2 * r + 1)

\* C21: calculateScore always returns an integer score of 0..100; without
\* blocking factors it is round(100 W / 48) - 5 u clamped to 0..100, W the
\* sum of the weights of the matching factors, u the number of uncertain
\* factors, 48 the sum of the seven weights 10, 9, 8, 7, 6, 5, 3.
C21_WeightedScore ==
  /\ Weights = {10, 9, 8, 7, 6, 5, 3}
  /\ SumValues(CRITERIA_WEIGHTS, DOMAIN CRITERIA_WEIGHTS) = 48
  /\ sOut.done =>
       /\ sOut.score \in 0..100
       /\ Len(sBlocking) = 0 =>
            \E r \in 0..200 :
              /\ IsRounded(r, 100 * SumWeights(sMatching), 48)
              /\ sOut.score = Max(0, Min(100, r - 5 * Len(sUncertain)))

C21_Witness ==
  /\ sOut.done
  /\ Len(sBlocking) = 0
  /\ SumWeights(sMatching) = 18
  /\ Len(sUncertain) = 2
  /\ sOut.score = 28

\* what an outcome is apart from the trial it is for
OutcomeOf(r) ==
  [score |-> r.score, category |-> r.category, matchingFactors |-> r.matchingFactors,
   blockingFactors |-> r.blockingFactors, uncertainFactors |-> r.uncertainFactors,
   summary |-> r.summary]

SameInputs(a, b) ==
  /\ jobs[a].input.patientProfile = jobs[b].input.patientProfile
  /\ jobs[a].input.eligibilityCriteria = jobs[b].input.eligibilityCriteria

Completion(step) ==
  CASE step.status = "complete" -> 100
    [] step.status = "running" /\ step.progress /= NoProgress -> step.progress
    [] OTHER -> 0

C24_ExponentialBackoff ==
  /\ [](/\ \A n \in 1..Len(rWaits) :
            /\ rWaits[n] = rBaseDelay * 2 ^ (n - 1)
            /\ n <= Len(rHistory)
            /\ rHistory[n] /= "ok"
        /\ rCall.phase = "call" =>
             /\ Len(rHistory) = rCall.attempt
             /\ Len(rWaits) = rCall.attempt
             /\ \A n \in 1..Len(rHistory) : rHistory[n] /= "ok"
        /\ rCall.phase = "sleep" =>
             /\ Len(rHistory) = rCall.attempt + 1
             /\ Len(rWaits) = rCall.attempt + 1
        /\ (Settled(rCall) /\ Len(rHistory) >= 1) => Len(rWaits) = Len(rHistory) - 1)
  /\ [][/\ Len(rHistory') <= Len(rHistory) + 1
        /\ Len(rHistory') = Len(rHistory) + 1 => rCall.phase = "call"
        /\ (rCall'.phase = "call" /\ rCall.phase /= "call")
             => rCall.phase \in {"idle", "sleep"}
        /\ Settled(rCall) => UNCHANGED <<rCall, rHistory, rWaits>>]_vars

C24_Witness ==
  /\ rImpl = "coordinator"
  /\ rCall.phase = "rejected"
  /\ rBaseDelay = 500
  /\ rWaits = <<500, 1000, 2000>>
  /\ Len(rHistory) = 4

\* ------------------------------------------------------------------------
\* Work after cancellation
\* ------------------------------------------------------------------------
\* the adapter is called in this step for the single call or for an
\* operation of the chunk: an attempt begins that was not in flight before
AdapterCallIssued ==
  \/ call'.phase = "call" /\ call.phase /= "call"
  \/ \E k \in DOMAIN ops' :
       /\ ops'[k].phase = "call"
       /\ ~(k \in DOMAIN ops /\ ops[k].phase = "call")

\* a step reports as running a stage that was not running before it
StageStarted ==
  \E e \in (Len(emitted) + 1)..Len(emitted') :
    /\ emitted'[e].step.status = "running"
    /\ ObservedStatus(emitted'[e].step.id, Len(emitted)) /= "running"

\* C25: once abortSignal has fired, no step starts a stage, dispatches a
\* chunk or calls an adapter; an operation of the chunk in flight can still
\* settle; and runPipeline rejects with the cancellation error only in a
\* state where every operation of the chunk has settled.
C25_NoNewWorkAfterCancel ==
  [][/\ aborted =>
          /\ ~StageStarted
          /\ opStarts' = opStarts
          /\ ~AdapterCallIssued
          /\ adapterCalls' = adapterCalls
     /\ (pc' = "thrown" /\ pc /= "thrown") =>
          /\ thrown' = CancelMessage
          /\ \A k \in DOMAIN ops : Settled(ops[k])]_vars

\* ------------------------------------------------------------------------
\* Extraction cache
\* ------------------------------------------------------------------------
\* C26: whatever the interleaving of extractTrialData calls, no key is given
\* to extractionCache.set more than once, and a call that finds its key
\* absent goes on to the remote extraction.
C26_CacheWriteOnce ==
  /\ [](\A id \in SeqToSet(cacheWrites) : Count(cacheWrites, id) <= 1)
  /\ [][\A k \in DOMAIN xCalls :
          (xCalls[k].phase = "idle" /\ xCalls'[k].phase /= "idle")
            => IF xCalls[k].nctId \in DOMAIN extractionCache
                 THEN xCalls'[k].phase = "fulfilled" /\ xCalls'[k].hit
                 ELSE xCalls'[k].phase = "fetching"]_vars

\* ------------------------------------------------------------------------
\* Steps of a returned run
\* ------------------------------------------------------------------------
\* C27: the completedSteps of every returned result hold exactly one step
\* for each of scout, extractor, matcher and advocate, in that order.
C27_OneStatePerStage ==
  pc = "returned" =>
    /\ Len(result.completedSteps) = Len(PIPELINE_STEPS)
    /\ \A n \in 1..Len(result.completedSteps) :
         result.completedSteps[n].id = PIPELINE_STEPS[n]

\* ------------------------------------------------------------------------
\* Summary templates
\* ------------------------------------------------------------------------
\* C28: of any two outcomes, those of one category have the same summary
\* template and those of different categories have different templates.
C28_TemplateByCategory ==
  \A a \in DOMAIN jobs : \A b \in DOMAIN jobs :
    (jobs[a].phase = "done" /\ jobs[b].phase = "done") =>
      (jobs[a].result.category = jobs[b].result.category
         <=> jobs[a].result.summary.template = jobs[b].result.summary.template)

C30_ChunkLoopsEnd ==
  /\ [](/\ pc \in {"extract", "match"} => Len(batch) >= 1
        /\ pc = "extract" => chunksSettled < Len(trials)
        /\ pc = "match" => chunksSettled < Len(trialsWithCriteria))
  /\ [][(pc \in {"extract", "match"} /\ pc' = pc /\ chunksSettled' /= chunksSettled)
          => i' > i]_vars

\* ------------------------------------------------------------------------
\* The progress an observer computes from the callbacks (Processing page)
\* ------------------------------------------------------------------------
\* getInitialSteps(): the four stages, all pending
getInitialSteps ==
  [k \in 1..Len(PIPELINE_STEPS) |->
     createStep(PIPELINE_STEPS[k], "pending", NoProgress, NoError)]

\* the progress callback of the Processing page: the step replaces the
\* entry of the same id (findIndex: the first one), if there is one
replaceStep(prev, step) ==
  LET found == {k \in 1..Len(prev) : prev[k].id = step.id}
  IN IF found = {} THEN prev
     ELSE LET stepIndex == CHOOSE k \in found : \A j \in found : k <= j
          IN [prev EXCEPT ![stepIndex] = step]

\* the observer's steps after the first n calls of onProgress
RECURSIVE ObservedSteps(_)
ObservedSteps(n) ==
  IF n = 0 THEN getInitialSteps
  ELSE replaceStep(ObservedSteps(n - 1), emitted[n].step)

ObservedOverall(n) == calculateOverallProgress(ObservedSteps(n))

\* positions of the 'running' events of a stage that carry a progress
ProgressEvents(id) ==
  {n \in 1..Len(emitted) : /\ emitted[n].step.id = id
                           /\ emitted[n].step.status = "running"
                           /\ emitted[n].step.progress /= NoProgress}

IntraStageMonotone(id) ==
  \A m, n \in ProgressEvents(id) :
    m < n => emitted[m].step.progress <= emitted[n].step.progress

\* the last progress reported for a stage that went through a chunk is 100
IntraStageEndsAt100(id, items) ==
  (MarkedComplete(completedSteps, id) /\ Len(items) > 0) =>
    \E n \in ProgressEvents(id) :
      /\ emitted[n].step.progress = 100
      /\ \A m \in ProgressEvents(id) : m <= n

OverallNeverDecreases ==
  \A n \in 1..Len(emitted) : ObservedOverall(n - 1) <= ObservedOverall(n)

\* C31: the overall progress an observer computes from the callbacks never
\* decreases, the progress within Extraction and within Matching never
\* decreases and is 100 after the stage's last chunk, and the overall value
\* is 100 after the last callback of a run that returns its four stages
\* complete.
C31_ObservedProgress ==
  /\ OverallNeverDecreases
  /\ IntraStageMonotone("extractor") /\ IntraStageMonotone("matcher")
  /\ IntraStageEndsAt100("extractor", trials)
  /\ IntraStageEndsAt100("matcher", trialsWithCriteria)
  /\ (pc = "returned" /\ AllFourComplete(result.completedSteps)) =>
       ObservedOverall(Len(emitted)) = 100

\* ------------------------------------------------------------------------
\* Inclusion criteria that are neither matched nor in conflict
\* ------------------------------------------------------------------------
\* the texts of a profile a criterion can overlap with
ProfileTexts(profile) ==
  {profile.diagnosis} \cup SeqToSet(profile.biomarkers)
    \cup SeqToSet(profile.previousTreatments)

\* a textual overlap of the criterion with the profile, either way round
TextOverlap(c, profile) ==
  \E x \in ProfileTexts(profile) :
    \/ includes(normalize(c.criterion), normalize(x))
    \/ includes(normalize(x), normalize(c.criterion))

\* the range a performance-status criterion encodes, if it encodes one
EcogRange(c) == ecogMatch(c.criterion)

EcogConfirms(c, profile) ==
  /\ EcogRange(c).found
  /\ EcogRange(c).min <= profile.ecogScore
  /\ profile.ecogScore <= EcogRange(c).max

EcogConflicts(c, profile) ==
  /\ EcogRange(c).found
  /\ (profile.ecogScore < EcogRange(c).min \/ profile.ecogScore > EcogRange(c).max)

Unconfirmed(profile, criteria) ==
  {k \in 1..Len(criteria.inclusionCriteria) :
     LET c == criteria.inclusionCriteria[k]
     IN /\ ~TextOverlap(c, profile)
        /\ ~EcogConfirms(c, profile)
        /\ ~EcogConflicts(c, profile)}

\* C32: the outcome has one uncertain factor for every inclusion criterion
\* that neither overlaps with the profile nor conflicts with it, whatever
\* the category of the criterion.
C32_UnmatchedInclusionIsUncertain ==
  mResult.done =>
    Len(mResult.uncertainFactors) = Cardinality(Unconfirmed(mProfile, mCriteria))

\* ------------------------------------------------------------------------
\* The performance-status check
\* ------------------------------------------------------------------------
\* the range of scores a performance-status criterion of the model states
StatedRange(c) ==
  IF c.criterion \in {TxtECOG01, TxtECOGPerformanceStatus01}
    THEN [found |-> TRUE, min |-> 0, max |-> 1]
    ELSE [found |-> FALSE, min |-> 0, max |-> 0]

ScoreOutside(score, range) == range.found /\ (score < range.min \/ score > range.max)

ExcludedByPerformanceStatus(profile, criteria) ==
  \E k \in 1..Len(criteria.inclusionCriteria) :
    ScoreOutside(profile.ecogScore, StatedRange(criteria.inclusionCriteria[k]))

HasEcogMatchingFactor(r) ==
  \E k \in 1..Len(r.matchingFactors) :
    r.matchingFactors[k].factor.label = "ECOG score meets requirements"

HasEcogBlockingFactor(r) ==
  \E k \in 1..Len(r.blockingFactors) : r.blockingFactors[k].factor = "ECOG Score"

\* C33: when a performance-status inclusion criterion states a range and
\* the profile's score is outside it, the outcome has a performance-status
\* blocking factor, no performance-status matching factor and is
\* not_eligible; otherwise it has a performance-status matching factor of
\* weight 7 and no performance-status blocking factor.
C33_PerformanceStatus ==
  mResult.done =>
    IF ExcludedByPerformanceStatus(mProfile, mCriteria)
      THEN /\ HasEcogBlockingFactor(mResult)
           /\ ~HasEcogMatchingFactor(mResult)
           /\ mResult.category = "not_eligible"
      ELSE /\ \E k \in 1..Len(mResult.matchingFactors) :
                /\ mResult.matchingFactors[k].factor.label = "ECOG score meets requirements"
                /\ mResult.matchingFactors[k].weight = 7
           /\ ~HasEcogBlockingFactor(mResult)

\* ------------------------------------------------------------------------
\* The log of a run
\* ------------------------------------------------------------------------
\* positions in the log of the per-item entries of a stage
ItemEntries(msgs) == {n \in 1..Len(logs) : logs[n].msg \in msgs}

\* the chunk the item named by log entry n was dispatched in
ChunkOfEntry(n, items) ==
  CeilDiv(CHOOSE p \in 1..Len(items) : items[p] = logs[n].id, concurrency)

ChunkOrder(msgs, items) ==
  \A m, n \in ItemEntries(msgs) :
    m < n => ChunkOfEntry(m, items) <= ChunkOfEntry(n, items)

\* C34: the log only grows. The log handed to a callback extends the log
\* handed to the callback before it, the per-item entries of a stage come in
\* chunk order, and no step of the run removes or rewrites an entry.
C34_LogOnlyGrows ==
  /\ [](/\ \A m, n \in 1..Len(emitted) :
             m < n => emitted[m].logLen <= emitted[n].logLen
        /\ \A n \in 1..Len(emitted) : emitted[n].logLen <= Len(logs)
        /\ ChunkOrder({"Extracted criteria for", "Failed to extract criteria for"}, trials)
        /\ ChunkOrder({"Matched", "Failed to match"}, trialsWithCriteria))
  /\ [][/\ Len(logs') >= Len(logs)
        /\ SubSeq(logs', 1, Len(logs)) = logs]_vars

C34_Witness ==
  /\ pc = "returned"
  /\ concurrency = 1
  /\ Len(matchResults) >= 2
  /\ extractionErrors /= <<>>
  /\ \E m, n \in 1..Len(emitted) : m < n /\ emitted[m].logLen < emitted[n].logLen
  /\ emitted[Len(emitted)].logLen = Len(logs)

\* ------------------------------------------------------------------------
\* extractMultipleTrials
\* ------------------------------------------------------------------------
\* extractTrialData calls made and not settled
ExtractionsInFlight == Cardinality({k \in DOMAIN xCalls : xCalls[k].phase = "fetching"})

TakesOf(id) == {n \in 1..Len(taken) : taken[n].nctId = id}

CallsFor(id) == {k \in DOMAIN xCalls : xCalls[k].nctId = id}

\* C35: at most min(C, n) extractions are in flight, every identifier is
\* taken from the queue by one worker and extracted once, a failed
\* extraction is stored as an Error while the other identifiers still get
\* their entry, and the map returned has one entry per identifier.
C35_WorkerPool ==
  /\ ExtractionsInFlight <= Min(bConcurrency, Len(bNctIds))
  /\ \A id \in SeqToSet(bNctIds) :
       /\ Cardinality(TakesOf(id)) <= 1
       /\ Cardinality(CallsFor(id)) <= 1
  /\ \A k \in DOMAIN xCalls :
       (xCalls[k].nctId \in DOMAIN results) =>
         results[xCalls[k].nctId].error = (xCalls[k].phase = "rejected")
  /\ bReturned.done =>
       /\ DOMAIN bReturned.map = SeqToSet(bNctIds)
       /\ \A id \in SeqToSet(bNctIds) :
            /\ Cardinality(TakesOf(id)) = 1
            /\ Cardinality(CallsFor(id)) = 1

\* ------------------------------------------------------------------------
\* extractTrialData and the cache: hits and failures
\* ------------------------------------------------------------------------
\* call k starts in this step
CallStarts(k) == xCalls[k].phase = "idle" /\ xCalls'[k].phase /= "idle"

\* call k fails in this step
CallFails(k) == xCalls[k].phase = "fetching" /\ xCalls'[k].phase = "rejected"

\* C36: a call for an identifier that is in the cache returns the cached
\* extraction and sends no request; a call for an identifier that is not in
\* the cache sends one; and a call that fails leaves the cache as it was,
\* so that a later call for the identifier sends a request again.
C36_CacheHitsAndFailures ==
  /\ [][\A k \in DOMAIN xCalls :
          /\ (CallStarts(k) /\ xCalls[k].nctId \in DOMAIN extractionCache) =>
               /\ xCalls'[k].phase = "fulfilled"
               /\ xCalls'[k].value = extractionCache[xCalls[k].nctId]
               /\ extractionCache' = extractionCache
          /\ (CallStarts(k) /\ xCalls[k].nctId \notin DOMAIN extractionCache) =>
               xCalls'[k].phase = "fetching"
          /\ CallFails(k) =>
               /\ extractionCache' = extractionCache
               /\ cacheWrites' = cacheWrites]_vars
  /\ [](\A k \in DOMAIN xCalls :
          /\ xCalls[k].hit => xCalls[k].phase = "fulfilled"
          /\ xCalls[k].phase = "rejected" => xCalls[k].value = NoExtraction)

C36_Witness ==
  \E j, k \in DOMAIN xCalls :
    /\ xCalls[j].nctId = xCalls[k].nctId
    /\ xCalls[j].phase = "rejected"
    /\ xCalls[k].hit
    /\ xCalls[k].phase = "fulfilled"
    /\ xCalls[k].value = extractionCache[xCalls[k].nctId]

\* ------------------------------------------------------------------------
\* Free-tier session state
\* ------------------------------------------------------------------------
Remaining == getRemainingFreeMatches(stored)

DecrementStep == tCalls' /= tCalls /\ tLast'.fn = "decrementFreeMatches"

\* C37: the value kept for the session is -1 (unlimited) or a count in
\* 0..5; decrementFreeMatches never raises it and never turns unlimited into
\* a count; and from grantUnlimitedMatches until resetFreeMatches
\* hasUnlimitedMatches holds.
C37_FreeTierState ==
  /\ [](/\ Remaining \in (0..FreeMatches) \cup {0 - 1}
        /\ tGranted => hasUnlimitedMatches(stored))
  /\ [][DecrementStep =>
          /\ getRemainingFreeMatches(stored') <= Remaining
          /\ hasUnlimitedMatches(stored) => hasUnlimitedMatches(stored')]_vars

\* ------------------------------------------------------------------------
\* runAgent
\* ------------------------------------------------------------------------
\* attempts of the remote call that failed, in order
FailedAttempts == SelectSeq(rHistory, LAMBDA o : o /= "ok")

FailureExplained ==
  /\ FailedAttempts /= <<>>
  /\ aResult.error = FailedAttempts[Len(FailedAttempts)]
  /\ \/ ~isRetryable(aResult.error)
     \/ Len(rHistory) = rMaxRetries

\* C38: runAgent always returns an AgentResult. For an agent id that is not
\* configured it returns success = false with the unknown-agent error and
\* no remote call is made; when the call failed for good the result has
\* success = false, output null and the last error; success = true comes
\* only with the value of the first attempt that succeeded.
C38_RunAgentResult ==
  aResult.done =>
    /\ aAgentId \notin AGENT_SYSTEM_PROMPTS =>
         /\ ~aResult.success
         /\ aResult.error = "Unknown agent"
         /\ rHistory = <<>>
    /\ aResult.success =>
         /\ Len(aReturned) = 1
         /\ aResult.output = aReturned[1]
         /\ rHistory[Len(rHistory)] = "ok"
    /\ (~aResult.success /\ rHistory /= <<>>) =>
         /\ aResult.output = NullOutput
         /\ FailureExplained

====
